---------------------------- MODULE Spec2Model ----------------------------
(***************************************************************************)
(* Verification model of the VisionCheck-Kenya screening components.       *)
(*                                                                         *)
(*   Spec      VisualAcuityTest, distance protocol (welcome .. results)    *)
(*   SpecNear  VisualAcuityTest, near-vision protocol                      *)
(*   SpecAstig AstigmatismTest, the two-round dial flow of both eyes       *)
(*   SpecInterp interpretEyeResult applied to two passes of dial angles    *)
(*   SpecLeftRound2 AstigmatismTest, the round that ends the test          *)
(*   SpecDiagnose   ColorVisionTest, diagnose / getResults on answer lists *)
(*   SpecOptotype   the fontSize column of DISTANCE_TEST_LINES             *)
(*   SpecBrightness brightnessService, lock and restore calls              *)
(*   SpecMean       averageAngles and the suspected axis                    *)
(*   SpecDots       generatePlateDots, the dots of a plate                  *)
(*   SpecColourFlow ColorVisionTest, the screens and the plate advances     *)
(*   SpecCombined   interpretResults on the results of both protocols       *)
(*                                                                         *)
(* React state is committed after every event handler, so a handler reads  *)
(* the state left by the previous one.  animateTransition defers its       *)
(* callback by 150 ms with setTimeout: the callback is kept in `timers`    *)
(* until it fires, and taps may be handled in between.                     *)
(***************************************************************************)
EXTENDS Integers, Sequences, FiniteSets, TLC

VARIABLES
    phase,              \* VisualAcuityTest: useState<TestPhase>
    currentEye,         \* 'right' | 'left'
    currentLineIndex,   \* index into DISTANCE_TEST_LINES (0-based)
    currentLetterIndex, \* index into the row's letters (0-based)
    consecutiveErrors,
    distanceResults,    \* [rightEye, leftEye], each an EyeResult or Null
    nearLineIndex,      \* index into NEAR_VISION_LINES (0-based)
    nearResults,        \* [rightEye, leftEye], each a NearEyeResult or Null
    timers,             \* callbacks scheduled by animateTransition, oldest first
    savedResults        \* allResults handed to onComplete, Null before

VARIABLES
    astigPhase,         \* AstigmatismTest: useState<TestPhase>
    astigEye,           \* AstigmatismTest: currentEye
    testRound,          \* 1 = first pass, 2 = confirmation pass
    rightEyeRound1, rightEyeRound2, leftEyeRound1, leftEyeRound2,
    selectedAngles,     \* angles toggled in the round on screen
    rightResult, leftResult,  \* EyeAstigmatismResult or Null
    finalResults        \* what finishTest handed to onComplete, or Null

VARIABLES
    argFirstPass, argSecondPass,  \* arguments of a call of interpretEyeResult
    eyeResult                     \* its return value, Null before the call

VARIABLES
    argPlateResults,    \* ColorVisionTest: the PlateResult list handed to diagnose
    colourResults       \* the TestResults computed from it, Null before

VARIABLES
    platformOS,         \* Platform.OS
    screenWidth,        \* Dimensions.get('window').width
    distanceFontSizes   \* fontSize of each row of DISTANCE_TEST_LINES once
                        \* the module is loaded, <<>> before

VARIABLES
    userBrightness,     \* the screen brightness the user had set
    screenBrightness,   \* the brightness of the screen (tenths)
    originalBrightness, \* _originalBrightness: <<>> for null, <<b>> for b
    brightnessCalls     \* the calls of the brightness service made so far,
                        \* oldest first, each with its position

VARIABLES
    argAngles,          \* argument of a call of averageAngles
    avgAngle,           \* its return value, <<>> before the call
    suspectedAxis       \* Math.round((avgAngle + 90) % 180), <<>> before

VARIABLES
    dotPlateIndex,      \* generatePlateDots: index of the plate
    dotPlateSize,       \* ... and the plate size
    dotCalls            \* the DotData[] returned by each call, oldest first

VARIABLES
    colourPhase,        \* ColorVisionTest: useState<TestPhase>
    currentPlateIndex,  \* index into ISHIHARA_PLATES (0-based)
    plateResults,       \* the PlateResult of every answer, oldest first
    plateTimers,        \* number of plate advances scheduled and not yet run
    completedResults,   \* what finishTest handed to onComplete last, <<>> or <<r>>
    plateRuns           \* how often the test screen was entered from its start buttons

VARIABLES
    argDistance,        \* interpretResults: the DistanceResults passed
    argNear,            \* ... and the NearResults
    combinedDiagnosis   \* its return value (diagnosis), Null before the call

acuityVars == <<phase, currentEye, currentLineIndex, currentLetterIndex,
                consecutiveErrors, distanceResults, nearLineIndex,
                nearResults, timers, savedResults>>

astigVars == <<astigPhase, astigEye, testRound, rightEyeRound1, rightEyeRound2,
               leftEyeRound1, leftEyeRound2, selectedAngles, rightResult,
               leftResult, finalResults>>

interpVars == <<argFirstPass, argSecondPass, eyeResult>>

colourVars == <<argPlateResults, colourResults>>

deviceVars == <<platformOS, screenWidth, distanceFontSizes>>

brightVars == <<userBrightness, screenBrightness, originalBrightness,
                brightnessCalls>>

meanVars == <<argAngles, avgAngle, suspectedAxis>>

\* the variables of the specifications of single functions and handlers
dotVars == <<dotPlateIndex, dotPlateSize, dotCalls>>

flowVars == <<colourPhase, currentPlateIndex, plateResults, plateTimers,
              completedResults, plateRuns>>

combinedVars == <<argDistance, argNear, combinedDiagnosis>>

extraVars == <<meanVars, dotVars, flowVars, combinedVars>>

vars == <<acuityVars, astigVars, interpVars, colourVars, deviceVars, brightVars,
          extraVars>>

\* what the actions of one component leave alone
notAcuity == <<astigVars, interpVars, colourVars, deviceVars, brightVars, extraVars>>
\* ... and what every handler of VisualAcuityTest but "Done" leaves alone
notAcuityRun == <<savedResults, notAcuity>>
notAstig == <<acuityVars, interpVars, colourVars, deviceVars, brightVars, extraVars>>
notInterp == <<acuityVars, astigVars, colourVars, deviceVars, brightVars, extraVars>>
notColour == <<acuityVars, astigVars, interpVars, deviceVars, brightVars, extraVars>>
notDevice == <<acuityVars, astigVars, interpVars, colourVars, brightVars, extraVars>>
notBright == <<acuityVars, astigVars, interpVars, colourVars, deviceVars, extraVars>>
baseVars == <<acuityVars, astigVars, interpVars, colourVars, deviceVars, brightVars>>
notMean == <<baseVars, dotVars, flowVars, combinedVars>>
notDots == <<baseVars, meanVars, flowVars, combinedVars>>
notFlow == <<baseVars, meanVars, dotVars, combinedVars>>
notCombined == <<baseVars, meanVars, dotVars, flowVars>>

-----------------------------------------------------------------------------
(* Bounds of the exploration *)

\* callbacks that may be pending at once (taps faster than 150 ms)
MaxPending == 2
\* consecutiveErrors is not reset by the hardware back button; wrong answers
\* are explored while it is below this value
MaxErrors == 2
\* the dial lines tapped in the astigmatism flow: the first NumTapAngles of
\* every second line (0, 30, ... degrees)
NumTapAngles == 2
\* interpretEyeResult is applied to first passes of up to MaxFirst and second
\* passes of up to MaxSecond dial angles
MaxFirst == 4
MaxSecond == 3
\* the dial lines selected in the rounds that precede the last round of the
\* astigmatism flow: the first NumRoundAngles
NumRoundAngles == 3
\* colour plates on which the deficient answer is explored next to the
\* correct answer and "Can't see": the last NumDeficientPlates that offer one
NumDeficientPlates == 1
\* answers given to the last colour plate after the first one
MaxExtraAnswers == 1
\* window widths of 320 dp to 320 + NumScreenWidths dp
NumScreenWidths == 60
\* calls of lockMaxBrightness in one screening (calibration screens mounted)
MaxLockCalls == 2
\* angles in an argument of averageAngles
MaxMeanAngles == 3
\* rows of the dot grid of a plate that are generated, from the top
MaxDotRows == 4
\* calls of generatePlateDots for one plate and size
MaxDotCalls == 2

\* plate advances of ColorVisionTest pending at once
MaxPlatePending == 2

\* plates on which "Can't See a Number" is tapped as well
NumCantSeePlates == 1

\* runs of the plates started from "Begin" / "Retake Test"
MaxPlateRuns == 1

-----------------------------------------------------------------------------
(* Static tables *)

Null == [isNull |-> TRUE]

SLOAN_LETTERS == {"C", "D", "E", "F", "H", "K", "N", "O", "P", "R", "S", "V", "Z"}

\* the table with row 6/7.5 as high as row 6/9
DISTANCE_TEST_LINES_EqualRows == <<
    [line |-> 1, acuity |-> "6/60",  decimal |-> 10,  letters |-> <<"E">>,                                    letterHeight_mm |-> 4365],
    [line |-> 2, acuity |-> "6/36",  decimal |-> 17,  letters |-> <<"F", "P">>,                               letterHeight_mm |-> 2619],
    [line |-> 3, acuity |-> "6/24",  decimal |-> 25,  letters |-> <<"D", "O", "Z">>,                          letterHeight_mm |-> 1746],
    [line |-> 4, acuity |-> "6/18",  decimal |-> 33,  letters |-> <<"N", "P", "E", "H">>,                     letterHeight_mm |-> 1310],
    [line |-> 5, acuity |-> "6/12",  decimal |-> 50,  letters |-> <<"P", "E", "C", "F", "D">>,                letterHeight_mm |-> 873],
    [line |-> 6, acuity |-> "6/9",   decimal |-> 67,  letters |-> <<"E", "D", "F", "C", "Z", "P">>,           letterHeight_mm |-> 655],
    [line |-> 7, acuity |-> "6/7.5", decimal |-> 80,  letters |-> <<"F", "E", "K", "O", "P", "Z", "D">>,      letterHeight_mm |-> 655],
    [line |-> 8, acuity |-> "6/6",   decimal |-> 100, letters |-> <<"D", "E", "F", "P", "O", "N", "E", "C">>, letterHeight_mm |-> 437] >>

\* decimal is in hundredths, letterHeight_mm in hundredths of a millimetre
DISTANCE_TEST_LINES == <<
    [line |-> 1, acuity |-> "6/60",  decimal |-> 10,  letters |-> <<"E">>,                                    letterHeight_mm |-> 4365],
    [line |-> 2, acuity |-> "6/36",  decimal |-> 17,  letters |-> <<"F", "P">>,                               letterHeight_mm |-> 2619],
    [line |-> 3, acuity |-> "6/24",  decimal |-> 25,  letters |-> <<"D", "O", "Z">>,                          letterHeight_mm |-> 1746],
    [line |-> 4, acuity |-> "6/18",  decimal |-> 33,  letters |-> <<"N", "P", "E", "H">>,                     letterHeight_mm |-> 1310],
    [line |-> 5, acuity |-> "6/12",  decimal |-> 50,  letters |-> <<"P", "E", "C", "F", "D">>,                letterHeight_mm |-> 873],
    [line |-> 6, acuity |-> "6/9",   decimal |-> 67,  letters |-> <<"E", "D", "F", "C", "Z", "P">>,           letterHeight_mm |-> 655],
    [line |-> 7, acuity |-> "6/7.5", decimal |-> 80,  letters |-> <<"F", "E", "K", "O", "P", "Z", "D">>,      letterHeight_mm |-> 546],
    [line |-> 8, acuity |-> "6/6",   decimal |-> 100, letters |-> <<"D", "E", "F", "P", "O", "N", "E", "C">>, letterHeight_mm |-> 437] >>

\* pointSize_mm is in thousandths of a millimetre
NEAR_VISION_LINES == <<
    [level |-> "J10", equivalent |-> "N36", pointSize_mm |-> 13500],
    [level |-> "J8",  equivalent |-> "N24", pointSize_mm |-> 9000],
    [level |-> "J6",  equivalent |-> "N18", pointSize_mm |-> 6750],
    [level |-> "J5",  equivalent |-> "N12", pointSize_mm |-> 4500],
    [level |-> "J3",  equivalent |-> "N8",  pointSize_mm |-> 3000],
    [level |-> "J2",  equivalent |-> "N6",  pointSize_mm |-> 2250],
    [level |-> "J1",  equivalent |-> "N5",  pointSize_mm |-> 1875] >>

\* JavaScript array access: arr[i] with a 0-based index, undefined out of range
DistanceLineAt(i) == DISTANCE_TEST_LINES[i + 1]
NearLineAt(i) == NEAR_VISION_LINES[i + 1]

previousPhaseMap == [p \in {"welcome", "distance-setup", "distance-calibrating",
                            "distance-calibration", "distance-test",
                            "distance-switch-eye", "distance-results",
                            "near-setup", "near-calibrating", "near-test",
                            "near-switch-eye", "near-results",
                            "combined-results"} |->
    CASE p = "welcome"              -> "exit"
      [] p = "distance-setup"       -> "welcome"
      [] p = "distance-calibrating" -> "distance-setup"
      [] p = "distance-calibration" -> "distance-calibrating"
      [] p = "distance-test"        -> "distance-calibration"
      [] p = "distance-switch-eye"  -> "distance-test"
      [] p = "distance-results"     -> "distance-test"
      [] p = "near-setup"           -> "distance-results"
      [] p = "near-calibrating"     -> "near-setup"
      [] p = "near-test"            -> "near-calibrating"
      [] p = "near-switch-eye"      -> "near-test"
      [] p = "near-results"         -> "near-test"
      [] p = "combined-results"     -> "near-results"]

-----------------------------------------------------------------------------
(* Values derived on every render *)

LineDefined == currentLineIndex \in 0..(Len(DISTANCE_TEST_LINES) - 1)

\* currentDistanceLine?.letters[currentLetterIndex] is defined
LetterDefined ==
    /\ LineDefined
    /\ currentLetterIndex \in 0..(Len(DistanceLineAt(currentLineIndex).letters) - 1)

currentLetter == DistanceLineAt(currentLineIndex).letters[currentLetterIndex + 1]

NearLineDefined == nearLineIndex \in 0..(Len(NEAR_VISION_LINES) - 1)

\* The test screens read currentDistanceLine.fontSize / currentNearLine.fontSize
\* while rendering: with the row undefined the render throws and the
\* component is unmounted.
RenderThrows ==
    \/ phase = "distance-test" /\ ~LineDefined
    \/ phase = "near-test" /\ ~NearLineDefined

Mounted == phase # "exit" /\ ~RenderThrows

-----------------------------------------------------------------------------
(* animateTransition: setTimeout(callback, 150) *)

animateTransition(cb) ==
    /\ Len(timers) < MaxPending
    /\ timers' = Append(timers, [cb |-> cb, eye |-> currentEye])

-----------------------------------------------------------------------------
(* Recording an eye's result *)

\* variant: reports the row that was failed
PreviousLineOrFirst_SameRow(k) == DistanceLineAt(k)

\* the row reported when an answer ends the run on row k
PreviousLineOrFirst(k) ==
    IF k > 0 THEN DistanceLineAt(k - 1) ELSE DistanceLineAt(0)

WorseThanFirstLine ==
    [DistanceLineAt(0) EXCEPT !.acuity = "Worse than 6/60", !.decimal = 5, !.line = 0]

\* variant: no separate result below the first row
CantSeeLine_NoWorse(k) == PreviousLineOrFirst(k)

\* the row reported by "Can't See Clearly" on row k
CantSeeLine(k) ==
    IF k > 0 THEN DistanceLineAt(k - 1) ELSE WorseThanFirstLine

EyeResult(bestLine) ==
    [acuity |-> bestLine.acuity, linesRead |-> bestLine.line, decimal |-> bestLine.decimal]

finishDistanceEye(bestLine) ==
    IF currentEye = "right"
    THEN /\ distanceResults' = [distanceResults EXCEPT !.rightEye = EyeResult(bestLine)]
         /\ phase' = "distance-switch-eye"
    ELSE /\ distanceResults' = [distanceResults EXCEPT !.leftEye = EyeResult(bestLine)]
         /\ phase' = "distance-results"

\* Array.prototype.indexOf on NEAR_VISION_LINES: -1 when absent
NearIndexOf(x) ==
    IF \E i \in 1..Len(NEAR_VISION_LINES) : NEAR_VISION_LINES[i] = x
    THEN (CHOOSE i \in 1..Len(NEAR_VISION_LINES) :
             /\ NEAR_VISION_LINES[i] = x
             /\ \A j \in 1..(i - 1) : NEAR_VISION_LINES[j] # x) - 1
    ELSE -1

WorseThanFirstNearLine == [NearLineAt(0) EXCEPT !.level = "Worse than J10"]

\* variant: reports the level that could not be read
CantReadLine_SameLevel(k) == NearLineAt(k)

\* the level reported when level k cannot be read
CantReadLine(k) ==
    IF k > 0 THEN NearLineAt(k - 1) ELSE WorseThanFirstNearLine

NearEyeResult(bestLine) ==
    [level |-> bestLine.level, equivalent |-> bestLine.equivalent,
     linesRead |-> NearIndexOf(bestLine) + 1]

finishNearEye(bestLine) ==
    IF currentEye = "right"
    THEN /\ nearResults' = [nearResults EXCEPT !.rightEye = NearEyeResult(bestLine)]
         /\ phase' = "near-switch-eye"
    ELSE /\ nearResults' = [nearResults EXCEPT !.leftEye = NearEyeResult(bestLine)]
         /\ phase' = "near-results"

-----------------------------------------------------------------------------
(* Distance test handlers *)

\* variant: the first wrong answer already stops the run
StopOnErrors_First(newErrors) == newErrors >= 1

\* 2 consecutive errors on the same line: stop
StopOnErrors(newErrors) == newErrors >= 2

handleDistanceAnswer(answer) ==
    /\ Mounted /\ phase = "distance-test"
    /\ LetterDefined                   \* no choices are rendered otherwise
    /\ LET isCorrect == answer = currentLetter
           newErrors == consecutiveErrors + 1
           row       == DistanceLineAt(currentLineIndex)
       IN  /\ ~isCorrect => consecutiveErrors < MaxErrors
           /\ IF ~isCorrect /\ StopOnErrors(newErrors)
              THEN
                   /\ consecutiveErrors' = newErrors
                   /\ finishDistanceEye(PreviousLineOrFirst(currentLineIndex))
                   /\ UNCHANGED <<currentLineIndex, currentLetterIndex, timers>>
              ELSE /\ consecutiveErrors' = IF isCorrect THEN 0 ELSE newErrors
                   /\ IF currentLetterIndex < Len(row.letters) - 1
                      THEN \* move to the next letter in this line
                           /\ animateTransition("letter")
                           /\ UNCHANGED <<phase, distanceResults, currentLineIndex,
                                          currentLetterIndex>>
                      ELSE IF ~isCorrect
                      THEN \* incorrect on the last letter: record previous line
                           /\ finishDistanceEye(PreviousLineOrFirst(currentLineIndex))
                           /\ UNCHANGED <<currentLineIndex, currentLetterIndex, timers>>
                      ELSE IF currentLineIndex < Len(DISTANCE_TEST_LINES) - 1
                      THEN \* move to the next line
                           /\ animateTransition("line")
                           /\ UNCHANGED <<phase, distanceResults, currentLineIndex,
                                          currentLetterIndex>>
                      ELSE \* completed all lines
                           /\ finishDistanceEye(DistanceLineAt(Len(DISTANCE_TEST_LINES) - 1))
                           /\ UNCHANGED <<currentLineIndex, currentLetterIndex, timers>>
    /\ UNCHANGED <<currentEye, nearLineIndex, nearResults, notAcuityRun>>

DistanceAnswer == \E answer \in SLOAN_LETTERS : handleDistanceAnswer(answer)

handleCantSee ==
    /\ Mounted /\ phase = "distance-test"
    /\ finishDistanceEye(CantSeeLine(currentLineIndex))
    /\ UNCHANGED <<currentEye, currentLineIndex, currentLetterIndex,
                   consecutiveErrors, nearLineIndex, nearResults, timers, notAcuityRun>>

-----------------------------------------------------------------------------
(* Near vision handler *)

handleNearAnswer(canRead) ==
    /\ Mounted /\ phase = "near-test"
    /\ IF canRead
       THEN IF nearLineIndex < Len(NEAR_VISION_LINES) - 1
            THEN \* move to the next (smaller) line
                 /\ animateTransition("near")
                 /\ UNCHANGED <<phase, nearResults>>
            ELSE \* read all lines
                 /\ finishNearEye(NearLineAt(Len(NEAR_VISION_LINES) - 1))
                 /\ UNCHANGED timers
       ELSE \* can't read this line: record previous as best
            /\ finishNearEye(CantReadLine(nearLineIndex))
            /\ UNCHANGED timers
    /\ UNCHANGED <<currentEye, currentLineIndex, currentLetterIndex,
                   consecutiveErrors, distanceResults, nearLineIndex, notAcuityRun>>

NearAnswer == \E canRead \in BOOLEAN : handleNearAnswer(canRead)

-----------------------------------------------------------------------------
(* The deferred callbacks of animateTransition, run in scheduling order *)

\* variant: the next row starts at the letter index the last row ended on
RunCallback_KeepLetter(cb) ==
    CASE cb = "letter" ->
            /\ currentLetterIndex' = currentLetterIndex + 1
            /\ UNCHANGED <<currentLineIndex, consecutiveErrors, nearLineIndex>>
      [] cb = "line" ->
            /\ currentLineIndex' = currentLineIndex + 1
            /\ consecutiveErrors' = 0
            /\ UNCHANGED <<currentLetterIndex, nearLineIndex>>
      [] cb = "near" ->
            /\ nearLineIndex' = nearLineIndex + 1
            /\ UNCHANGED <<currentLineIndex, currentLetterIndex, consecutiveErrors>>

RunCallback(cb) ==
    CASE cb = "letter" ->
            \* setCurrentLetterIndex(prev => prev + 1)
            /\ currentLetterIndex' = currentLetterIndex + 1
            /\ UNCHANGED <<currentLineIndex, consecutiveErrors, nearLineIndex>>
      [] cb = "line" ->
            /\ currentLineIndex' = currentLineIndex + 1
            /\ currentLetterIndex' = 0
            /\ consecutiveErrors' = 0
            /\ UNCHANGED nearLineIndex
      [] cb = "near" ->
            \* setNearLineIndex(prev => prev + 1)
            /\ nearLineIndex' = nearLineIndex + 1
            /\ UNCHANGED <<currentLineIndex, currentLetterIndex, consecutiveErrors>>

TimerFires ==
    /\ Mounted
    /\ timers # <<>>
    /\ RunCallback(Head(timers).cb)
    /\ timers' = Tail(timers)
    /\ UNCHANGED <<phase, currentEye, distanceResults, nearResults, notAcuityRun>>

-----------------------------------------------------------------------------
(* Navigation *)

\* what a handler that only calls setPhase leaves alone
exceptPhase == <<currentEye, currentLineIndex, currentLetterIndex,
                 consecutiveErrors, distanceResults, nearLineIndex,
                 nearResults, timers, notAcuityRun>>

\* what the buttons that start a distance run leave alone
exceptDistanceRun == <<distanceResults, nearLineIndex, nearResults, timers, notAcuityRun>>

\* what the buttons that reset the near run leave alone
exceptNearRun == <<currentLineIndex, currentLetterIndex, consecutiveErrors,
                   distanceResults, nearResults, timers, notAcuityRun>>

WelcomeBegin ==
    /\ Mounted /\ phase = "welcome"
    /\ phase' = "distance-setup"
    /\ UNCHANGED exceptPhase

\* the welcome screen's arrow: restoreBrightness(); onExit()
WelcomeExit ==
    /\ Mounted /\ phase = "welcome"
    /\ phase' = "exit"
    /\ UNCHANGED exceptPhase

DistanceSetupBack ==
    /\ Mounted /\ phase = "distance-setup"
    /\ phase' = "welcome"
    /\ UNCHANGED exceptPhase

DistanceSetupNext ==
    /\ Mounted /\ phase = "distance-setup"
    /\ phase' = "distance-calibrating"
    /\ UNCHANGED exceptPhase

\* DistanceCalibration's onCalibrated / onSkip
DistanceCalibrated ==
    /\ Mounted /\ phase = "distance-calibrating"
    /\ phase' = "distance-calibration"
    /\ UNCHANGED exceptPhase

DistanceCalibrationBack ==
    /\ Mounted /\ phase = "distance-calibration"
    /\ phase' = "distance-setup"
    /\ UNCHANGED exceptPhase

\* "Yes, I'm Ready"
StartRightDistance ==
    /\ Mounted /\ phase = "distance-calibration"
    /\ currentEye' = "right"
    /\ currentLineIndex' = 0
    /\ currentLetterIndex' = 0
    /\ consecutiveErrors' = 0
    /\ phase' = "distance-test"
    /\ UNCHANGED exceptDistanceRun

\* "I'm Ready" on the switch-eye screen
StartLeftDistance ==
    /\ Mounted /\ phase = "distance-switch-eye"
    /\ currentEye' = "left"
    /\ currentLineIndex' = 0
    /\ currentLetterIndex' = 0
    /\ consecutiveErrors' = 0
    /\ phase' = "distance-test"
    /\ UNCHANGED exceptDistanceRun

\* "Continue to Near Vision Test"
ContinueToNear ==
    /\ Mounted /\ phase = "distance-results"
    /\ currentEye' = "right"
    /\ nearLineIndex' = 0
    /\ phase' = "near-setup"
    /\ UNCHANGED exceptNearRun

NearSetupBack ==
    /\ Mounted /\ phase = "near-setup"
    /\ phase' = "distance-results"
    /\ UNCHANGED exceptPhase

NearSetupReady ==
    /\ Mounted /\ phase = "near-setup"
    /\ currentEye' = "right"
    /\ nearLineIndex' = 0
    /\ phase' = "near-calibrating"
    /\ UNCHANGED exceptNearRun

\* DistanceCalibration's onCalibrated / onSkip in near mode
NearCalibrated ==
    /\ Mounted /\ phase = "near-calibrating"
    /\ phase' = "near-test"
    /\ UNCHANGED exceptPhase

\* "I'm Ready" on the near switch-eye screen
StartLeftNear ==
    /\ Mounted /\ phase = "near-switch-eye"
    /\ currentEye' = "left"
    /\ nearLineIndex' = 0
    /\ phase' = "near-test"
    /\ UNCHANGED exceptNearRun

NearResultsNext ==
    /\ Mounted /\ phase = "near-results"
    /\ phase' = "combined-results"
    /\ UNCHANGED exceptPhase

\* "Done - Save Results": restoreBrightness(); onComplete(allResults).  The
\* host screen (app/test-suite.tsx, handleVAComplete) stores the results, marks
\* the test completed and on its next render replaces the component.
Done ==
    /\ Mounted /\ phase = "combined-results"
    /\ savedResults' = [distanceVision |-> distanceResults, nearVision |-> nearResults]
    /\ phase' = "exit"
    /\ UNCHANGED <<currentEye, currentLineIndex, currentLetterIndex,
                   consecutiveErrors, distanceResults, nearLineIndex,
                   nearResults, timers, notAcuity>>

\* the hardwareBackPress listener
hardwareBackPress ==
    /\ Mounted
    /\ phase' = previousPhaseMap[phase]
    /\ UNCHANGED exceptPhase

-----------------------------------------------------------------------------
(* AstigmatismTest: constants and interpretation logic *)

NUM_LINES == 12
ANGLE_STEP == 180 \div NUM_LINES
LINE_ANGLES == [i \in 1..NUM_LINES |-> (i - 1) * ANGLE_STEP]

Abs(x) == IF x < 0 THEN -x ELSE x
Min(x, y) == IF x <= y THEN x ELSE y
Max(x, y) == IF x >= y THEN x ELSE y

\* the inner loop of checkConsistency: some b of `second` lies within 15
\* degrees of a, the difference taken around the 180-degree circle
FindsMatch(a, second) ==
    \E j \in 1..Len(second) :
        LET diff == Abs(a - second[j])
            wrappedDiff == Min(diff, 180 - diff)
        IN  wrappedDiff <= 15

\* the outer loop: the entries of `first` that find a match in `second`
matchCount(first, second) ==
    Cardinality({i \in 1..Len(first) : FindsMatch(first[i], second)})

\* matchCount >= Math.min(first.length, second.length) * 0.5, without the
\* fraction
checkConsistency(first, second) ==
    IF Len(first) = 0 /\ Len(second) = 0 THEN TRUE
    ELSE IF Len(first) = 0 \/ Len(second) = 0 THEN FALSE
    ELSE 2 * matchCount(first, second) >= Min(Len(first), Len(second))

\* suspectedAxis = Math.round((averageAngles(firstPass) + 90) % 180): it is a
\* function of the first pass alone and is carried as the angles it is
\* computed from
suspectedAxisOf(angles) == [perpendicularToMeanOf |-> angles]

\* severity with every inconsistent report of two or more lines rated
\* significant
severityOf_InconsistentSignificant(n, consistent) ==
    IF n = 1 /\ consistent THEN "mild"
    ELSE IF n <= 2 /\ consistent THEN "moderate"
    ELSE IF n >= 3 \/ ~consistent THEN (IF n >= 2 THEN "significant" ELSE "mild")
    ELSE "mild"

\* the severity ladder of interpretEyeResult, n = firstPass.length
severityOf(n, consistent) ==
    IF n = 1 /\ consistent THEN "mild"
    ELSE IF n <= 2 /\ consistent THEN "moderate"
    ELSE IF n >= 3 \/ ~consistent THEN (IF n >= 3 THEN "significant" ELSE "mild")
    ELSE "mild"

\* interpretEyeResult reporting every uniform eye as consistent
interpretEyeResult_UniformConsistent(firstPass, secondPass) ==
    IF Len(firstPass) = 0
    THEN [selectedAngles |-> <<>>,
          isUniform      |-> TRUE,
          suspectedAxis  |-> Null,
          severity       |-> "none",
          consistent     |-> TRUE]
    ELSE LET consistent == checkConsistency(firstPass, secondPass)
         IN  [selectedAngles |-> firstPass,
              isUniform      |-> FALSE,
              suspectedAxis  |-> suspectedAxisOf(firstPass),
              severity       |-> severityOf(Len(firstPass), consistent),
              consistent     |-> consistent]

interpretEyeResult(firstPass, secondPass) ==
    IF Len(firstPass) = 0
    THEN [selectedAngles |-> <<>>,
          isUniform      |-> TRUE,
          suspectedAxis  |-> Null,
          severity       |-> "none",
          consistent     |-> (Len(secondPass) = 0)]
    ELSE LET consistent == checkConsistency(firstPass, secondPass)
         IN  [selectedAngles |-> firstPass,
              isUniform      |-> FALSE,
              suspectedAxis  |-> suspectedAxisOf(firstPass),
              severity       |-> severityOf(Len(firstPass), consistent),
              consistent     |-> consistent]

severityOrder == <<"none", "mild", "moderate", "significant">>

\* severityOrder.indexOf(s), 0-based
SeverityIndex(s) == CHOOSE i \in 0..(Len(severityOrder) - 1) : severityOrder[i + 1] = s

\* getOverallSuspicion taking the lower of the two indices
getOverallSuspicion_Lower(right, left) ==
    LET rIdx == SeverityIndex(IF right = Null THEN "none" ELSE right.severity)
        lIdx == SeverityIndex(IF left = Null THEN "none" ELSE left.severity)
    IN  severityOrder[Min(rIdx, lIdx) + 1]

getOverallSuspicion(right, left) ==
    LET rIdx == SeverityIndex(IF right = Null THEN "none" ELSE right.severity)
        lIdx == SeverityIndex(IF left = Null THEN "none" ELSE left.severity)
    IN  severityOrder[Max(rIdx, lIdx) + 1]

\* the recommendation text, named by the branch that returns it
getRecommendation(overall, right, left) ==
    IF overall = "none" THEN "none"
    ELSE IF overall = "mild"
         THEN LET inconsistent == \/ (right # Null /\ ~right.consistent)
                                  \/ (left # Null /\ ~left.consistent)
              IN  IF inconsistent THEN "mild-inconsistent" ELSE "mild"
    ELSE IF overall = "moderate" THEN "moderate"
    ELSE "significant"

-----------------------------------------------------------------------------
(* AstigmatismTest: the component *)

astigPreviousPhaseMap ==
    [p \in {"welcome", "setup", "test-instructions", "test", "confirm",
            "switch-eye", "results"} |->
        CASE p = "welcome"           -> "exit"
          [] p = "setup"             -> "welcome"
          [] p = "test-instructions" -> "setup"
          [] p = "test"              -> "test-instructions"
          [] p = "confirm"           -> "test"
          [] p = "switch-eye"        -> "test"
          [] p = "results"           -> "test"]

\* the component is on screen until onExit is called
AstigMounted == astigPhase # "exit"

\* the dial lines a user taps in the exploration
TapAngles == {LINE_ANGLES[2 * i - 1] : i \in 1..NumTapAngles}

RECURSIVE SortedSeq(_)
\* the elements of a set of numbers in ascending order: the test screen
\* renders selectedAngles.sort((a, b) => a - b), which sorts the array in place
SortedSeq(S) ==
    IF S = {} THEN <<>>
    ELSE LET m == CHOOSE x \in S : \A y \in S : x <= y
         IN  <<m>> \o SortedSeq(S \ {m})

Range(s) == {s[i] : i \in 1..Len(s)}

exceptAstigPhase == <<astigEye, testRound, rightEyeRound1, rightEyeRound2,
                      leftEyeRound1, leftEyeRound2, selectedAngles,
                      rightResult, leftResult, finalResults, notAstig>>

\* "Start Screening"
StartScreening ==
    /\ AstigMounted /\ astigPhase = "welcome"
    /\ astigPhase' = "setup"
    /\ UNCHANGED exceptAstigPhase

\* the back arrow of the welcome screen: onExit
AstigWelcomeExit ==
    /\ AstigMounted /\ astigPhase = "welcome"
    /\ astigPhase' = "exit"
    /\ UNCHANGED exceptAstigPhase

\* the back arrow of the setup screen
AstigSetupBack ==
    /\ AstigMounted /\ astigPhase = "setup"
    /\ astigPhase' = "welcome"
    /\ UNCHANGED exceptAstigPhase

\* "Begin Test"
BeginTest ==
    /\ AstigMounted /\ astigPhase = "setup"
    /\ astigEye' = "right"
    /\ testRound' = 1
    /\ selectedAngles' = <<>>
    /\ rightEyeRound1' = <<>> /\ rightEyeRound2' = <<>>
    /\ leftEyeRound1' = <<>> /\ leftEyeRound2' = <<>>
    /\ rightResult' = Null /\ leftResult' = Null
    /\ astigPhase' = "test-instructions"
    /\ UNCHANGED <<finalResults, notAstig>>

\* "I'm Ready - Show the Dial"
ShowDial ==
    /\ AstigMounted /\ astigPhase = "test-instructions"
    /\ selectedAngles' = <<>>
    /\ astigPhase' = "test"
    /\ UNCHANGED <<astigEye, testRound, rightEyeRound1, rightEyeRound2,
                   leftEyeRound1, leftEyeRound2, rightResult, leftResult,
                   finalResults, notAstig>>

toggleAngle(angle) ==
    /\ AstigMounted /\ astigPhase = "test"
    /\ selectedAngles' =
          IF angle \in Range(selectedAngles)
          THEN SelectSeq(selectedAngles, LAMBDA a : a # angle)
          ELSE SortedSeq(Range(Append(selectedAngles, angle)))
    /\ UNCHANGED <<astigPhase, astigEye, testRound, rightEyeRound1,
                   rightEyeRound2, leftEyeRound1, leftEyeRound2, rightResult,
                   leftResult, finalResults, notAstig>>

TapLine == \E angle \in TapAngles : toggleAngle(angle)

finishTest(right, left) ==
    /\ astigPhase' = "results"
    /\ finalResults' =
          LET overall == getOverallSuspicion(right, left)
          IN  [rightEye          |-> right,
               leftEye           |-> left,
               overallSuspicion  |-> overall,
               recommendation    |-> getRecommendation(overall, right, left)]

\* "Submit"; the button is disabled while nothing is selected
handleSubmitRound ==
    /\ AstigMounted /\ astigPhase = "test"
    /\ selectedAngles # <<>>
    /\ IF astigEye = "right"
       THEN IF testRound = 1
            THEN /\ rightEyeRound1' = selectedAngles
                 /\ selectedAngles' = <<>>
                 /\ testRound' = 2
                 /\ astigPhase' = "confirm"
                 /\ UNCHANGED <<astigEye, rightEyeRound2, leftEyeRound1,
                                leftEyeRound2, rightResult, leftResult,
                                finalResults>>
            ELSE /\ rightEyeRound2' = selectedAngles
                 /\ rightResult' = interpretEyeResult(rightEyeRound1, selectedAngles)
                 /\ selectedAngles' = <<>>
                 /\ testRound' = 1
                 /\ astigEye' = "left"
                 /\ astigPhase' = "switch-eye"
                 /\ UNCHANGED <<rightEyeRound1, leftEyeRound1, leftEyeRound2,
                                leftResult, finalResults>>
       ELSE IF testRound = 1
            THEN /\ leftEyeRound1' = selectedAngles
                 /\ selectedAngles' = <<>>
                 /\ testRound' = 2
                 /\ astigPhase' = "confirm"
                 /\ UNCHANGED <<astigEye, rightEyeRound1, rightEyeRound2,
                                leftEyeRound2, rightResult, leftResult,
                                finalResults>>
            ELSE LET result == interpretEyeResult(leftEyeRound1, selectedAngles)
                 IN  /\ leftEyeRound2' = selectedAngles
                     /\ leftResult' = result
                     /\ finishTest(rightResult, result)
                     /\ UNCHANGED <<astigEye, testRound, rightEyeRound1,
                                    rightEyeRound2, leftEyeRound1,
                                    selectedAngles, rightResult>>
    /\ UNCHANGED notAstig

\* "All Lines Equal"
handleAllEqual ==
    /\ AstigMounted /\ astigPhase = "test"
    /\ IF astigEye = "right"
       THEN IF testRound = 1
            THEN /\ rightEyeRound1' = <<>>
                 /\ selectedAngles' = <<>>
                 /\ testRound' = 2
                 /\ astigPhase' = "confirm"
                 /\ UNCHANGED <<astigEye, rightEyeRound2, leftEyeRound1,
                                leftEyeRound2, rightResult, leftResult,
                                finalResults>>
            ELSE /\ rightEyeRound2' = <<>>
                 /\ rightResult' = interpretEyeResult(<<>>, <<>>)
                 /\ selectedAngles' = <<>>
                 /\ testRound' = 1
                 /\ astigEye' = "left"
                 /\ astigPhase' = "switch-eye"
                 /\ UNCHANGED <<rightEyeRound1, leftEyeRound1, leftEyeRound2,
                                leftResult, finalResults>>
       ELSE IF testRound = 1
            THEN /\ leftEyeRound1' = <<>>
                 /\ selectedAngles' = <<>>
                 /\ testRound' = 2
                 /\ astigPhase' = "confirm"
                 /\ UNCHANGED <<astigEye, rightEyeRound1, rightEyeRound2,
                                leftEyeRound2, rightResult, leftResult,
                                finalResults>>
            ELSE LET result == interpretEyeResult(<<>>, <<>>)
                 IN  /\ leftEyeRound2' = <<>>
                     /\ leftResult' = result
                     /\ finishTest(rightResult, result)
                     /\ UNCHANGED <<astigEye, testRound, rightEyeRound1,
                                    rightEyeRound2, leftEyeRound1,
                                    selectedAngles, rightResult>>
    /\ UNCHANGED notAstig

\* "Show Dial Again"
ShowDialAgain ==
    /\ AstigMounted /\ astigPhase = "confirm"
    /\ selectedAngles' = <<>>
    /\ astigPhase' = "test"
    /\ UNCHANGED <<astigEye, testRound, rightEyeRound1, rightEyeRound2,
                   leftEyeRound1, leftEyeRound2, rightResult, leftResult,
                   finalResults, notAstig>>

\* "Test Left Eye"
TestLeftEye ==
    /\ AstigMounted /\ astigPhase = "switch-eye"
    /\ selectedAngles' = <<>>
    /\ testRound' = 1
    /\ astigPhase' = "test-instructions"
    /\ UNCHANGED <<astigEye, rightEyeRound1, rightEyeRound2, leftEyeRound1,
                   leftEyeRound2, rightResult, leftResult, finalResults,
                   notAstig>>

\* the back arrow of the results screen: onExit
AstigResultsExit ==
    /\ AstigMounted /\ astigPhase = "results"
    /\ astigPhase' = "exit"
    /\ UNCHANGED exceptAstigPhase

\* "Done": onExit
AstigDone ==
    /\ AstigMounted /\ astigPhase = "results"
    /\ astigPhase' = "exit"
    /\ UNCHANGED exceptAstigPhase

\* variant: the retake leaves the eye under test as it was
RetakeTest_KeepEye ==
    /\ AstigMounted /\ astigPhase = "results"
    /\ testRound' = 1
    /\ selectedAngles' = <<>>
    /\ rightEyeRound1' = <<>> /\ rightEyeRound2' = <<>>
    /\ leftEyeRound1' = <<>> /\ leftEyeRound2' = <<>>
    /\ rightResult' = Null /\ leftResult' = Null
    /\ astigPhase' = "test-instructions"
    /\ UNCHANGED <<astigEye, finalResults, notAstig>>

\* "Retake Test"
RetakeTest ==
    /\ AstigMounted /\ astigPhase = "results"
    /\ astigEye' = "right"
    /\ testRound' = 1
    /\ selectedAngles' = <<>>
    /\ rightEyeRound1' = <<>> /\ rightEyeRound2' = <<>>
    /\ leftEyeRound1' = <<>> /\ leftEyeRound2' = <<>>
    /\ rightResult' = Null /\ leftResult' = Null
    /\ astigPhase' = "test-instructions"
    /\ UNCHANGED <<finalResults, notAstig>>

\* the hardwareBackPress listener of AstigmatismTest
astigHardwareBackPress ==
    /\ AstigMounted
    /\ astigPhase' = astigPreviousPhaseMap[astigPhase]
    /\ UNCHANGED exceptAstigPhase

-----------------------------------------------------------------------------
(* Initial states *)

InitAcuity ==
    /\ phase = "welcome"
    /\ currentEye = "right"
    /\ currentLineIndex = 0
    /\ currentLetterIndex = 0
    /\ consecutiveErrors = 0
    /\ distanceResults = [rightEye |-> Null, leftEye |-> Null]
    /\ nearLineIndex = 0
    /\ nearResults = [rightEye |-> Null, leftEye |-> Null]
    /\ timers = <<>>
    /\ savedResults = Null

InitAstig ==
    /\ astigPhase = "welcome"
    /\ astigEye = "right"
    /\ testRound = 1
    /\ rightEyeRound1 = <<>> /\ rightEyeRound2 = <<>>
    /\ leftEyeRound1 = <<>> /\ leftEyeRound2 = <<>>
    /\ selectedAngles = <<>>
    /\ rightResult = Null /\ leftResult = Null
    /\ finalResults = Null

InitInterp ==
    /\ argFirstPass = <<>> /\ argSecondPass = <<>>
    /\ eyeResult = Null

InitColour ==
    /\ argPlateResults = <<>>
    /\ colourResults = Null

\* a 360 dp wide Android phone, DISTANCE_TEST_LINES not yet evaluated
InitDevice ==
    /\ platformOS = "android"
    /\ screenWidth = 360
    /\ distanceFontSizes = <<>>

\* the brightness setBrightnessAsync(1.0) sets, in tenths
FullBrightness == 10

\* no call of the brightness service made, the screen at full brightness
InitBright ==
    /\ userBrightness = FullBrightness
    /\ screenBrightness = FullBrightness
    /\ originalBrightness = <<>>
    /\ brightnessCalls = <<>>

\* averageAngles not called
InitMean ==
    /\ argAngles = <<>>
    /\ avgAngle = <<>>
    /\ suspectedAxis = <<>>

\* generatePlateDots not called
InitDots ==
    /\ dotPlateIndex = 0
    /\ dotPlateSize = 340
    /\ dotCalls = <<>>

\* ColorVisionTest as mounted
InitFlow ==
    /\ colourPhase = "welcome"
    /\ currentPlateIndex = 0
    /\ plateResults = <<>>
    /\ plateTimers = 0
    /\ completedResults = <<>>
    /\ plateRuns = 0

\* interpretResults not called
InitCombined ==
    /\ argDistance = [rightEye |-> Null, leftEye |-> Null]
    /\ argNear = [rightEye |-> Null, leftEye |-> Null]
    /\ combinedDiagnosis = Null

InitExtra == InitMean /\ InitDots /\ InitFlow /\ InitCombined

InitOthers == InitColour /\ InitDevice /\ InitBright /\ InitExtra

-----------------------------------------------------------------------------
(* Spec: the distance protocol of VisualAcuityTest, from the welcome screen *)
(* to the near-vision setup screen.                                         *)

Init == InitAcuity /\ InitAstig /\ InitInterp /\ InitOthers

Next ==
    \/ WelcomeBegin
    \/ WelcomeExit
    \/ DistanceSetupBack
    \/ DistanceSetupNext
    \/ DistanceCalibrated
    \/ DistanceCalibrationBack
    \/ StartRightDistance
    \/ DistanceAnswer
    \/ handleCantSee
    \/ StartLeftDistance
    \/ ContinueToNear
    \/ NearSetupBack
    \/ hardwareBackPress
    \/ TimerFires

Spec == Init /\ [][Next]_vars

-----------------------------------------------------------------------------
(* SpecNear: the near-vision protocol of VisualAcuityTest.  It starts on    *)
(* the near-vision setup screen, reached with "Continue to Near Vision      *)
(* Test" after both eyes ended their distance run either with "Can't See    *)
(* Clearly" on row 0 or by reading every row, and follows the near-vision   *)
(* screens; the back button is not pressed on the setup screen.             *)

\* how a distance run was ended: the result it recorded and the indices it left
DistanceOutcomes ==
    { [result |-> EyeResult(WorseThanFirstLine), line |-> 0, letter |-> 0],
      [result |-> EyeResult(DistanceLineAt(Len(DISTANCE_TEST_LINES) - 1)),
       line |-> Len(DISTANCE_TEST_LINES) - 1,
       letter |-> Len(DistanceLineAt(Len(DISTANCE_TEST_LINES) - 1).letters) - 1] }

InitNearAcuity ==
    \E r \in DistanceOutcomes, l \in DistanceOutcomes :
        /\ phase = "near-setup"
        /\ currentEye = "right"
        /\ currentLineIndex = l.line
        /\ currentLetterIndex = l.letter
        /\ consecutiveErrors = 0
        /\ distanceResults = [rightEye |-> r.result, leftEye |-> l.result]
        /\ nearLineIndex = 0
        /\ nearResults = [rightEye |-> Null, leftEye |-> Null]
        /\ timers = <<>>
        /\ savedResults = Null

InitNear == InitNearAcuity /\ InitAstig /\ InitInterp /\ InitOthers

NearBackPress == phase # "near-setup" /\ hardwareBackPress

NextNear ==
    \/ NearSetupReady
    \/ NearCalibrated
    \/ NearAnswer
    \/ StartLeftNear
    \/ NearResultsNext
    \/ Done
    \/ NearBackPress
    \/ TimerFires

SpecNear == InitNear /\ [][NextNear]_vars

-----------------------------------------------------------------------------
(* SpecAstig: the AstigmatismTest component, hosted by app/astigmatism.tsx  *)
(* (onComplete only logs the results, onExit leaves the screen).            *)

NextAstig ==
    \/ StartScreening
    \/ AstigWelcomeExit
    \/ AstigSetupBack
    \/ BeginTest
    \/ ShowDial
    \/ TapLine
    \/ handleSubmitRound
    \/ handleAllEqual
    \/ ShowDialAgain
    \/ TestLeftEye
    \/ AstigResultsExit
    \/ AstigDone
    \/ RetakeTest
    \/ astigHardwareBackPress

SpecAstig == Init /\ [][NextAstig]_vars

-----------------------------------------------------------------------------
(* SpecInterp: interpretEyeResult applied to two passes of dial angles *)

\* the selections of at most n dial lines, in the order the dial shows them
Selections(n) ==
    {SortedSeq(S) : S \in {T \in SUBSET Range(LINE_ANGLES) : Cardinality(T) <= n}}

InitInterpInputs ==
    /\ argFirstPass \in Selections(MaxFirst)
    /\ argSecondPass \in Selections(MaxSecond)
    /\ eyeResult = Null

InitInterpret == InitAcuity /\ InitAstig /\ InitInterpInputs /\ InitOthers

Interpret ==
    /\ eyeResult = Null
    /\ eyeResult' = interpretEyeResult(argFirstPass, argSecondPass)
    /\ UNCHANGED <<argFirstPass, argSecondPass, notInterp>>

NextInterp == Interpret

SpecInterp == InitInterpret /\ [][NextInterp]_vars

-----------------------------------------------------------------------------
(* SpecLeftRound2: AstigmatismTest with the dial of the left eye's second   *)
(* round on screen.  The right eye's two rounds and the left eye's first    *)
(* round have been ended with "Submit" or "All Lines Equal"; the step that  *)
(* ends the round calls finishTest.                                         *)

RoundSelections ==
    {SortedSeq(S) : S \in SUBSET {LINE_ANGLES[i] : i \in 1..NumRoundAngles}}

InitLeftRound2Astig ==
    \E r1 \in RoundSelections, r2 \in RoundSelections,
       l1 \in RoundSelections, sel \in RoundSelections :
        /\ astigPhase = "test"
        /\ astigEye = "left"
        /\ testRound = 2
        /\ rightEyeRound1 = r1
        /\ rightEyeRound2 = r2
        \* round 2 ended with "Submit" (r2 not empty) or "All Lines Equal"
        /\ rightResult = IF r2 # <<>> THEN interpretEyeResult(r1, r2)
                                      ELSE interpretEyeResult(<<>>, <<>>)
        /\ leftEyeRound1 = l1
        /\ leftEyeRound2 = <<>>
        /\ leftResult = Null
        /\ selectedAngles = sel
        /\ finalResults = Null

InitLeftRound2 == InitAcuity /\ InitLeftRound2Astig /\ InitInterp /\ InitOthers

NextLeftRound2 ==
    \/ handleSubmitRound
    \/ handleAllEqual

SpecLeftRound2 == InitLeftRound2 /\ [][NextLeftRound2]_vars

-----------------------------------------------------------------------------
(* ColorVisionTest: the plate catalogue and the diagnosis engine *)

\* the fields of the plates that answers and diagnosis depend on
ISHIHARA_PLATES == <<
    [id |-> 1,  correctAnswer |-> "12", deficientAnswer |-> "12",      category |-> "demonstration"],
    [id |-> 2,  correctAnswer |-> "8",  deficientAnswer |-> "3",       category |-> "transformation"],
    [id |-> 3,  correctAnswer |-> "6",  deficientAnswer |-> "5",       category |-> "transformation"],
    [id |-> 4,  correctAnswer |-> "29", deficientAnswer |-> "70",      category |-> "vanishing"],
    [id |-> 5,  correctAnswer |-> "5",  deficientAnswer |-> "2",       category |-> "transformation"],
    [id |-> 6,  correctAnswer |-> "3",  deficientAnswer |-> "5",       category |-> "transformation"],
    [id |-> 7,  correctAnswer |-> "15", deficientAnswer |-> "17",      category |-> "transformation"],
    [id |-> 8,  correctAnswer |-> "74", deficientAnswer |-> "21",      category |-> "vanishing"],
    [id |-> 9,  correctAnswer |-> "45", deficientAnswer |-> "nothing", category |-> "vanishing"],
    [id |-> 10, correctAnswer |-> "7",  deficientAnswer |-> "nothing", category |-> "vanishing"],
    [id |-> 11, correctAnswer |-> "16", deficientAnswer |-> "nothing", category |-> "vanishing"],
    [id |-> 12, correctAnswer |-> "97", deficientAnswer |-> "nothing", category |-> "vanishing"],
    [id |-> 13, correctAnswer |-> "42", deficientAnswer |-> "2",       category |-> "transformation"],
    [id |-> 14, correctAnswer |-> "9",  deficientAnswer |-> "nothing", category |-> "tritan"] >>

\* ISHIHARA_PLATES[plateIndex], plateIndex 0-based
PlateAt(plateIndex) == ISHIHARA_PLATES[plateIndex + 1]

\* the PlateResult handleAnswer builds for an answer to plate plateIndex
PlateResultOf(plateIndex, answer) ==
    [plateIndex    |-> plateIndex,
     plateNumber   |-> PlateAt(plateIndex).id,
     userAnswer    |-> answer,
     correctAnswer |-> PlateAt(plateIndex).correctAnswer,
     isCorrect     |-> (answer = PlateAt(plateIndex).correctAnswer),
     category      |-> PlateAt(plateIndex).category]

\* the red-green filter taking every plate that is not a tritan plate
IsRedGreen_NotTritan(r) == r.category # "tritan"

\* the filter of rgPlates
IsRedGreen(r) == r.category = "vanishing" \/ r.category = "transformation"

\* the filter of tritanPlates
IsTritan(r) == r.category = "tritan"

\* results.filter(r => !r.isCorrect).length
ErrorCount(results) == Len(SelectSeq(results, LAMBDA r : ~r.isCorrect))

\* tritanErrors >= 1 ? 'moderate' : 'mild'
tritanSeverity(tritanErrors) == IF tritanErrors >= 1 THEN "moderate" ELSE "mild"

\* the plate index diagnose looks up for protan against deutan
DIAGNOSTIC_PLATE_INDEX == 12

\* protan for every wrong answer to the diagnostic plate
defTypeOf_AnyMiss(results) ==
    LET found == {i \in 1..Len(results) : results[i].plateIndex = DIAGNOSTIC_PLATE_INDEX}
    IN  IF found = {} THEN "deutan"
        ELSE LET diagnosticPlate == results[CHOOSE i \in found : \A j \in found : i <= j]
             IN  IF ~diagnosticPlate.isCorrect THEN "protan" ELSE "deutan"

\* protan against deutan: results.find(r => r.plateIndex === 12) and its answer
defTypeOf(results) ==
    LET found == {i \in 1..Len(results) : results[i].plateIndex = DIAGNOSTIC_PLATE_INDEX}
    IN  IF found = {} THEN "deutan"
        ELSE LET diagnosticPlate == results[CHOOSE i \in found : \A j \in found : i <= j]
             IN  IF ~diagnosticPlate.isCorrect
                 THEN (IF diagnosticPlate.userAnswer = "2" THEN "protan" ELSE "deutan")
                 ELSE "deutan"

\* the severity thresholds with the first one exclusive
rgSeverity_Exclusive(rgErrors, rgCount) ==
    IF 100 * rgErrors < 25 * rgCount THEN "mild"
    ELSE IF 100 * rgErrors <= 60 * rgCount THEN "moderate"
    ELSE "strong"

\* errorRate = rgErrors / rgPlates.length against 0.25 and 0.6, both sides
\* multiplied by 100 * rgPlates.length
rgSeverity(rgErrors, rgCount) ==
    IF 100 * rgErrors <= 25 * rgCount THEN "mild"
    ELSE IF 100 * rgErrors <= 60 * rgCount THEN "moderate"
    ELSE "strong"

diagnose(results) ==
    LET rgPlates == SelectSeq(results, IsRedGreen)
        tritanPlates == SelectSeq(results, IsTritan)
        rgErrors == ErrorCount(rgPlates)
        tritanErrors == ErrorCount(tritanPlates)
    IN  IF tritanErrors > 0 /\ rgErrors <= 1
        THEN [deficiencyType |-> "tritan", severity |-> tritanSeverity(tritanErrors)]
        ELSE IF rgErrors = 0
        THEN [deficiencyType |-> "normal", severity |-> "none"]
        ELSE [deficiencyType |-> defTypeOf(results),
              severity       |-> rgSeverity(rgErrors, Len(rgPlates))]

\* Math.round(0 / 0 * 100)
NaN == -1

\* Math.round((correctCount / results.length) * 100)
scoreOf(correctCount, total) ==
    IF total = 0 THEN NaN
    ELSE (200 * correctCount + total) \div (2 * total)

\* the TestResults that finishTest and getResults compute from a result list
getResults(results) ==
    LET diagnosis == diagnose(results)
        correctCount == Len(SelectSeq(results, LAMBDA r : r.isCorrect))
    IN  [totalPlates    |-> Len(results),
         correctCount   |-> correctCount,
         incorrectCount |-> Len(results) - correctCount,
         score          |-> scoreOf(correctCount, Len(results)),
         deficiencyType |-> diagnosis.deficiencyType,
         severity       |-> diagnosis.severity,
         plateResults   |-> results]

-----------------------------------------------------------------------------
(* SpecDiagnose: diagnose and getResults applied to the result lists that   *)
(* answering the plates in order builds up; after the last plate the last   *)
(* plate may be answered again (the results screen goes back to the test    *)
(* screen with currentPlateIndex unchanged).                                *)

\* plates whose deficient answer generateChoices adds to the choices
HasDeficientChoice(plateIndex) ==
    /\ PlateAt(plateIndex).deficientAnswer # "nothing"
    /\ PlateAt(plateIndex).deficientAnswer # PlateAt(plateIndex).correctAnswer

PlateIndices == 0..(Len(ISHIHARA_PLATES) - 1)

\* the last NumDeficientPlates of them
DeficientExplored ==
    LET candidates == {i \in PlateIndices : HasDeficientChoice(i)}
    IN  {i \in candidates : Cardinality({j \in candidates : j > i}) < NumDeficientPlates}

\* the answers explored for a plate: the correct one, "Can't see" and, on
\* the plates of DeficientExplored, the deficient one
AnswersExplored(plateIndex) ==
    {PlateAt(plateIndex).correctAnswer, "nothing"}
        \cup (IF plateIndex \in DeficientExplored
              THEN {PlateAt(plateIndex).deficientAnswer} ELSE {})

\* handleAnswer, as far as the result list goes: newResults = [...plateResults, result]
AnswerPlate ==
    /\ colourResults = Null
    /\ Len(argPlateResults) < Len(ISHIHARA_PLATES) + MaxExtraAnswers
    /\ LET plateOnScreen == Min(Len(argPlateResults), Len(ISHIHARA_PLATES) - 1)
       IN  \E answer \in AnswersExplored(plateOnScreen) :
               argPlateResults' = Append(argPlateResults,
                                         PlateResultOf(plateOnScreen, answer))
    /\ UNCHANGED <<colourResults, notColour>>

ComputeResults ==
    /\ colourResults = Null
    /\ colourResults' = getResults(argPlateResults)
    /\ UNCHANGED <<argPlateResults, notColour>>

NextDiagnose ==
    \/ AnswerPlate
    \/ ComputeResults

SpecDiagnose == Init /\ [][NextDiagnose]_vars

-----------------------------------------------------------------------------
(* Optotype sizing: the fontSize column of DISTANCE_TEST_LINES *)

\* Platform.OS === 'ios' ? 163 : 160
BASE_DPI(os) == IF os = "ios" THEN 163 ELSE 160

\* SCREEN_WIDTH - 80
MAX_LETTER_FONT(width) == width - 80

\* Math.round(Math.min(mmToDp(row.letterHeight_mm), MAX_LETTER_FONT)) for a
\* height in hundredths of a millimetre: mmToDp is height * BASE_DPI / 2540,
\* Math.round of a quotient n / d is (2n + d) \div 2d, and MAX_LETTER_FONT is
\* a whole number already
fontSizeOf(letterHeight_mm, os, width) ==
    LET n == letterHeight_mm * BASE_DPI(os)
    IN  IF n > 2540 * MAX_LETTER_FONT(width)
        THEN MAX_LETTER_FONT(width)
        ELSE (2 * n + 2540) \div 5080

\* the rows produced by .map(row => ({ ...row, fontSize }))
SizedDistanceLines(os, width) ==
    [i \in 1..Len(DISTANCE_TEST_LINES) |->
        [line            |-> DISTANCE_TEST_LINES[i].line,
         acuity          |-> DISTANCE_TEST_LINES[i].acuity,
         decimal         |-> DISTANCE_TEST_LINES[i].decimal,
         letters         |-> DISTANCE_TEST_LINES[i].letters,
         letterHeight_mm |-> DISTANCE_TEST_LINES[i].letterHeight_mm,
         fontSize        |-> fontSizeOf(DISTANCE_TEST_LINES[i].letterHeight_mm, os, width)]]

\* window widths in dp the table is computed for
ScreenWidths == {320 + k : k \in 0..NumScreenWidths}

InitOptotype ==
    /\ InitAcuity /\ InitAstig /\ InitInterp /\ InitColour /\ InitBright
    /\ InitExtra
    /\ platformOS \in {"android", "ios"}
    /\ screenWidth \in ScreenWidths
    /\ distanceFontSizes = <<>>

\* the module is loaded: the table is computed for the device
LoadDistanceLines ==
    /\ distanceFontSizes = <<>>
    /\ distanceFontSizes' = SizedDistanceLines(platformOS, screenWidth)
    /\ UNCHANGED <<platformOS, screenWidth, notDevice>>

NextOptotype == LoadDistanceLines

SpecOptotype == InitOptotype /\ [][NextOptotype]_vars

-----------------------------------------------------------------------------
(* brightnessService: lockMaxBrightness and restoreBrightness.  Both are    *)
(* async functions: a call runs up to its next await, the native operation  *)
(* it awaits happens later, and the call resumes after that; steps of       *)
(* different calls interleave.                                              *)

BrightnessLevels == 0..FullBrightness

\* the call a function makes when it is invoked: position and awaited value
CallOf(fn, pc, value) == [fn |-> fn, pc |-> pc, value |-> value]

\* calls of lockMaxBrightness made so far
LockCalls == Cardinality({i \in 1..Len(brightnessCalls) : brightnessCalls[i].fn = "lock"})

RestoreCalled == \E i \in 1..Len(brightnessCalls) : brightnessCalls[i].fn = "restore"

\* a calibration screen mounts: lockMaxBrightness() runs up to its first
\* await, requestPermissionsAsync on Android and getBrightnessAsync elsewhere
lockMaxBrightness ==
    /\ ~RestoreCalled
    /\ LockCalls < MaxLockCalls
    /\ brightnessCalls' = Append(brightnessCalls,
           CallOf("lock", IF platformOS = "android" THEN "permission" ELSE "get", <<>>))
    /\ UNCHANGED <<userBrightness, screenBrightness, originalBrightness, notBright>>

\* requestPermissionsAsync resolves: denied returns false, granted goes on
\* to getBrightnessAsync
PermissionResolves ==
    \E i \in 1..Len(brightnessCalls) :
        /\ brightnessCalls[i].pc = "permission"
        /\ \E status \in {"granted", "denied"} :
               brightnessCalls' = [brightnessCalls EXCEPT
                   ![i].pc = IF status = "granted" THEN "get" ELSE "done"]
        /\ UNCHANGED <<userBrightness, screenBrightness, originalBrightness, notBright>>

\* getBrightnessAsync reads the brightness of the screen
NativeGetBrightness ==
    \E i \in 1..Len(brightnessCalls) :
        /\ brightnessCalls[i].pc = "get"
        /\ brightnessCalls' = [brightnessCalls EXCEPT
               ![i].pc = "assign", ![i].value = <<screenBrightness>>]
        /\ UNCHANGED <<userBrightness, screenBrightness, originalBrightness, notBright>>

\* lockMaxBrightness resumes: _originalBrightness = <the value read>, then
\* setBrightnessAsync(1.0)
LockAssignsOriginal ==
    \E i \in 1..Len(brightnessCalls) :
        /\ brightnessCalls[i].pc = "assign"
        /\ originalBrightness' = brightnessCalls[i].value
        /\ brightnessCalls' = [brightnessCalls EXCEPT
               ![i].pc = "set", ![i].value = <<FullBrightness>>]
        /\ UNCHANGED <<userBrightness, screenBrightness, notBright>>

\* the test ends: restoreBrightness() runs up to its await, or to its end
\* when _originalBrightness is null
restoreBrightness ==
    /\ ~RestoreCalled
    /\ brightnessCalls' = Append(brightnessCalls,
           IF originalBrightness # <<>>
           THEN CallOf("restore", "set", originalBrightness)
           ELSE CallOf("restore", "done", <<>>))
    /\ UNCHANGED <<userBrightness, screenBrightness, originalBrightness, notBright>>

\* the setBrightnessAsync of a lockMaxBrightness call sets the screen; the
\* call returns true
LockNativeSet ==
    \E i \in 1..Len(brightnessCalls) :
        /\ brightnessCalls[i].fn = "lock"
        /\ brightnessCalls[i].pc = "set"
        /\ screenBrightness' = brightnessCalls[i].value[1]
        /\ brightnessCalls' = [brightnessCalls EXCEPT ![i].pc = "done", ![i].value = <<>>]
        /\ UNCHANGED <<userBrightness, originalBrightness, notBright>>

\* the setBrightnessAsync of the restoreBrightness call sets the screen
RestoreNativeSet ==
    \E i \in 1..Len(brightnessCalls) :
        /\ brightnessCalls[i].fn = "restore"
        /\ brightnessCalls[i].pc = "set"
        /\ screenBrightness' = brightnessCalls[i].value[1]
        /\ brightnessCalls' = [brightnessCalls EXCEPT ![i].pc = "clear", ![i].value = <<>>]
        /\ UNCHANGED <<userBrightness, originalBrightness, notBright>>

\* restoreBrightness resumes: _originalBrightness = null
RestoreClearsOriginal ==
    \E i \in 1..Len(brightnessCalls) :
        /\ brightnessCalls[i].pc = "clear"
        /\ originalBrightness' = <<>>
        /\ brightnessCalls' = [brightnessCalls EXCEPT ![i].pc = "done"]
        /\ UNCHANGED <<userBrightness, screenBrightness, notBright>>

\* a screening on either platform, the user's brightness at any level
InitBrightness ==
    /\ InitAcuity /\ InitAstig /\ InitInterp /\ InitColour /\ InitExtra
    /\ platformOS \in {"android", "ios"}
    /\ screenWidth = 360
    /\ distanceFontSizes = <<>>
    /\ userBrightness \in BrightnessLevels
    /\ screenBrightness = userBrightness
    /\ originalBrightness = <<>>
    /\ brightnessCalls = <<>>

NextBrightness ==
    \/ lockMaxBrightness
    \/ PermissionResolves
    \/ NativeGetBrightness
    \/ LockAssignsOriginal
    \/ LockNativeSet
    \/ restoreBrightness
    \/ RestoreNativeSet
    \/ RestoreClearsOriginal

SpecBrightness == InitBrightness /\ [][NextBrightness]_vars

-----------------------------------------------------------------------------
(* averageAngles and the suspected axis.  The code works in floating point: *)
(* Math.sin, Math.cos and Math.atan2 are approximations whose last digits    *)
(* depend on the engine, so a sum that lies on a boundary of the later       *)
(* rounding can fall on either side of it.  Sines are carried in units of    *)
(* 1 / SIN_SCALE and every comparison of a direction with a boundary comes   *)
(* with the error bound of that arithmetic: within the bound both sides are  *)
(* results of the call.                                                      *)

SIN_SCALE == 10000

\* Math.sin of 0, 1, .., 90 degrees, in units of 1 / SIN_SCALE
SIN_TABLE == <<
        0,   175,   349,   523,   698,   872,  1045,  1219,  1392,  1564,
     1736,  1908,  2079,  2250,  2419,  2588,  2756,  2924,  3090,  3256,
     3420,  3584,  3746,  3907,  4067,  4226,  4384,  4540,  4695,  4848,
     5000,  5150,  5299,  5446,  5592,  5736,  5878,  6018,  6157,  6293,
     6428,  6561,  6691,  6820,  6947,  7071,  7193,  7314,  7431,  7547,
     7660,  7771,  7880,  7986,  8090,  8192,  8290,  8387,  8480,  8572,
     8660,  8746,  8829,  8910,  8988,  9063,  9135,  9205,  9272,  9336,
     9397,  9455,  9511,  9563,  9613,  9659,  9703,  9744,  9781,  9816,
     9848,  9877,  9903,  9925,  9945,  9962,  9976,  9986,  9994,  9998,
    10000 >>

\* Math.sin((d * Math.PI) / 180) for a whole number of degrees
Sin(d) ==
    LET r == d % 360
    IN  IF r <= 90 THEN SIN_TABLE[r + 1]
        ELSE IF r <= 180 THEN SIN_TABLE[180 - r + 1]
        ELSE IF r <= 270 THEN -SIN_TABLE[r - 180 + 1]
        ELSE -SIN_TABLE[360 - r + 1]

\* Math.cos((d * Math.PI) / 180)
Cos(d) == Sin(d + 90)

RECURSIVE sinSum(_)
\* sinSum += Math.sin(rad) over the angles, rad the doubled angle
sinSum(angles) ==
    IF angles = <<>> THEN 0 ELSE Sin(2 * Head(angles)) + sinSum(Tail(angles))

RECURSIVE cosSum(_)
\* cosSum += Math.cos(rad) over the angles
cosSum(angles) ==
    IF angles = <<>> THEN 0 ELSE Cos(2 * Head(angles)) + cosSum(Tail(angles))

\* the error bound of a sum of n sines
SumError(n) == n

\* the error bound of the cross product of the sum (s, c) of n terms with a
\* direction of the table
CrossError(s, c, n) == 2 * SumError(n) * SIN_SCALE + Abs(s) + Abs(c)

\* Math.atan2(sinSum, cosSum) * 180 / Math.PI, 360 added when negative: the
\* whole degrees t in 0..359 with the direction of (s, c) in [t, t + 1); any
\* t when the sum is zero up to its error
atan2Degrees(s, c, n) ==
    IF Abs(s) <= SumError(n) /\ Abs(c) <= SumError(n) THEN 0..359
    ELSE {t \in 0..359 :
            /\ Cos(t) * c + Sin(t) * s > 0
            /\ Cos(t) * s - Sin(t) * c >= -CrossError(s, c, n)
            /\ Cos(t + 1) * s - Sin(t + 1) * c <= CrossError(s, c, n)}

\* the arithmetic mean of the angles
averageAngles_Arithmetic(angles) ==
    IF Len(angles) = 0 THEN {0}
    ELSE IF Len(angles) = 1 THEN {2 * angles[1]}
    ELSE LET RECURSIVE Sum(_)
             Sum(a) == IF a = <<>> THEN 0 ELSE Head(a) + Sum(Tail(a))
         IN  {((2 * Sum(angles)) \div Len(angles)) % 360}

\* averageAngles: the results a call can return, each as the whole number h
\* of half degrees with h / 2 <= result < (h + 1) / 2
averageAngles(angles) ==
    IF Len(angles) = 0 THEN {0}
    ELSE IF Len(angles) = 1 THEN {2 * angles[1]}
    ELSE atan2Degrees(sinSum(angles), cosSum(angles), Len(angles))

\* Math.round((avgAngle + 90) % 180) for avgAngle in half degrees:
\* (h + 180) % 360 half degrees are rounded to whole degrees, halves upwards
roundedAxis(h) == (((h + 180) % 360) + 1) \div 2

\* the values interpretEyeResult can report as suspectedAxis for a first pass
suspectedAxes(firstPass) == {roundedAxis(h) : h \in averageAngles(firstPass)}

-----------------------------------------------------------------------------
(* SpecMean: averageAngles and the axis computed from it, for every list of *)
(* up to MaxMeanAngles different angles of the dial, 10 and 170 degrees.    *)

MeanAngles == Range(LINE_ANGLES) \cup {10, 170}

\* the lists of different angles of MeanAngles, in every order
AngleLists(n) ==
    UNION {{a \in [1..k -> MeanAngles] : \A i, j \in 1..k : i # j => a[i] # a[j]} : k \in 0..n}

InitMeanInputs ==
    /\ argAngles \in AngleLists(MaxMeanAngles)
    /\ avgAngle = <<>>
    /\ suspectedAxis = <<>>

InitAverage ==
    /\ InitAcuity /\ InitAstig /\ InitInterp /\ InitColour /\ InitDevice /\ InitBright
    /\ InitDots /\ InitFlow /\ InitCombined
    /\ InitMeanInputs

\* avgAngle = averageAngles(firstPass); suspectedAxis = (avgAngle + 90) % 180,
\* reported as Math.round(suspectedAxis)
Average ==
    /\ avgAngle = <<>>
    /\ \E h \in averageAngles(argAngles) :
           /\ avgAngle' = <<h>>
           /\ suspectedAxis' = <<roundedAxis(h)>>
    /\ UNCHANGED <<argAngles, notMean>>

NextMean == Average

SpecMean == InitAverage /\ [][NextMean]_vars

-----------------------------------------------------------------------------
(* ColorVisionTest: seededRandom and generatePlateDots.  Lengths are in     *)
(* units of 1 / 20000 of the plate size, so that the geometry of the plate  *)
(* is in whole numbers; a dot's coordinates are reported in these units     *)
(* times the plate size.                                                    *)

COLORS ==
    [palette \in {"redOrange", "greenOlive", "bgNeutral", "bgWarm", "bgCool", "blueViolet", "yellowGreen", "demoFigure", "demoBg", "grayBlue", "grayYellow"} |->
        CASE palette = "redOrange" -> <<"#E24B2C", "#D94535", "#EE5530", "#D63B25", "#F06038">>
          [] palette = "greenOlive" -> <<"#4E9A06", "#5DAE10", "#3D8B00", "#6BBF18", "#2E7D00">>
          [] palette = "bgNeutral" -> <<"#C6A040", "#BF983C", "#CEAA48", "#B89035", "#D6B450">>
          [] palette = "bgWarm" -> <<"#CC8E3A", "#C48630", "#D49842", "#BC7E28", "#DCA04A">>
          [] palette = "bgCool" -> <<"#A89248", "#9E8840", "#B29C50", "#968038", "#BAA458">>
          [] palette = "blueViolet" -> <<"#5B3FA0", "#6B4DB0", "#4A2E90", "#7B5DC0", "#3A1E80">>
          [] palette = "yellowGreen" -> <<"#C5B020", "#CDB828", "#BBA818", "#D5C030", "#B0A010">>
          [] palette = "demoFigure" -> <<"#E84030", "#D43828", "#F04838", "#CC3020", "#E85040">>
          [] palette = "demoBg" -> <<"#5AAF5A", "#4CA04C", "#68BF68", "#3E903E", "#78CF78">>
          [] palette = "grayBlue" -> <<"#6888A8", "#7898B8", "#587898", "#88A8C8", "#486888">>
          [] palette = "grayYellow" -> <<"#A89868", "#9E8E5E", "#B2A272", "#948454", "#BCAC7C">>]

DIGIT_PATTERNS ==
    [d \in {"2", "3", "5", "6", "7", "8", "9", "12", "15", "16", "29", "42", "45", "57", "74", "97"} |->
        CASE d = "2" -> <<<<0, 0, 1, 1, 1, 0, 0>>,
                         <<0, 1, 1, 1, 1, 1, 0>>,
                         <<1, 1, 0, 0, 0, 1, 1>>,
                         <<0, 0, 0, 0, 1, 1, 1>>,
                         <<0, 0, 0, 1, 1, 0, 0>>,
                         <<0, 0, 1, 1, 0, 0, 0>>,
                         <<0, 1, 1, 0, 0, 0, 0>>,
                         <<1, 1, 1, 1, 1, 1, 1>>,
                         <<1, 1, 1, 1, 1, 1, 1>>>>
          [] d = "3" -> <<<<0, 1, 1, 1, 1, 1, 0>>,
                         <<1, 1, 1, 1, 1, 1, 1>>,
                         <<1, 1, 0, 0, 0, 1, 1>>,
                         <<0, 0, 0, 0, 0, 1, 1>>,
                         <<0, 0, 1, 1, 1, 1, 0>>,
                         <<0, 0, 0, 0, 0, 1, 1>>,
                         <<1, 1, 0, 0, 0, 1, 1>>,
                         <<1, 1, 1, 1, 1, 1, 1>>,
                         <<0, 1, 1, 1, 1, 1, 0>>>>
          [] d = "5" -> <<<<1, 1, 1, 1, 1, 1, 1>>,
                         <<1, 1, 1, 1, 1, 1, 1>>,
                         <<1, 1, 0, 0, 0, 0, 0>>,
                         <<1, 1, 1, 1, 1, 1, 0>>,
                         <<1, 1, 1, 1, 1, 1, 1>>,
                         <<0, 0, 0, 0, 0, 1, 1>>,
                         <<1, 1, 0, 0, 0, 1, 1>>,
                         <<1, 1, 1, 1, 1, 1, 1>>,
                         <<0, 1, 1, 1, 1, 1, 0>>>>
          [] d = "6" -> <<<<0, 1, 1, 1, 1, 1, 0>>,
                         <<1, 1, 1, 1, 1, 1, 1>>,
                         <<1, 1, 0, 0, 0, 0, 0>>,
                         <<1, 1, 0, 0, 0, 0, 0>>,
                         <<1, 1, 1, 1, 1, 1, 0>>,
                         <<1, 1, 1, 1, 1, 1, 1>>,
                         <<1, 1, 0, 0, 0, 1, 1>>,
                         <<1, 1, 1, 1, 1, 1, 1>>,
                         <<0, 1, 1, 1, 1, 1, 0>>>>
          [] d = "7" -> <<<<1, 1, 1, 1, 1, 1, 1>>,
                         <<1, 1, 1, 1, 1, 1, 1>>,
                         <<0, 0, 0, 0, 0, 1, 1>>,
                         <<0, 0, 0, 0, 1, 1, 0>>,
                         <<0, 0, 0, 1, 1, 0, 0>>,
                         <<0, 0, 1, 1, 0, 0, 0>>,
                         <<0, 0, 1, 1, 0, 0, 0>>,
                         <<0, 0, 1, 1, 0, 0, 0>>,
                         <<0, 0, 1, 1, 0, 0, 0>>>>
          [] d = "8" -> <<<<0, 1, 1, 1, 1, 1, 0>>,
                         <<1, 1, 1, 1, 1, 1, 1>>,
                         <<1, 1, 0, 0, 0, 1, 1>>,
                         <<1, 1, 0, 0, 0, 1, 1>>,
                         <<0, 1, 1, 1, 1, 1, 0>>,
                         <<1, 1, 0, 0, 0, 1, 1>>,
                         <<1, 1, 0, 0, 0, 1, 1>>,
                         <<1, 1, 1, 1, 1, 1, 1>>,
                         <<0, 1, 1, 1, 1, 1, 0>>>>
          [] d = "9" -> <<<<0, 1, 1, 1, 1, 1, 0>>,
                         <<1, 1, 1, 1, 1, 1, 1>>,
                         <<1, 1, 0, 0, 0, 1, 1>>,
                         <<1, 1, 0, 0, 0, 1, 1>>,
                         <<0, 1, 1, 1, 1, 1, 1>>,
                         <<0, 0, 0, 0, 0, 1, 1>>,
                         <<0, 0, 0, 0, 0, 1, 1>>,
                         <<1, 1, 1, 1, 1, 1, 1>>,
                         <<0, 1, 1, 1, 1, 1, 0>>>>
          [] d = "12" -> <<<<0, 1, 1, 0, 0, 0, 1, 1, 1, 1, 0, 0>>,
                         <<1, 1, 1, 0, 0, 1, 1, 1, 1, 1, 1, 0>>,
                         <<1, 1, 1, 0, 1, 1, 0, 0, 0, 1, 1, 0>>,
                         <<0, 1, 1, 0, 0, 0, 0, 0, 0, 1, 1, 0>>,
                         <<0, 1, 1, 0, 0, 0, 0, 0, 1, 1, 0, 0>>,
                         <<0, 1, 1, 0, 0, 0, 0, 1, 1, 0, 0, 0>>,
                         <<0, 1, 1, 0, 0, 0, 1, 1, 0, 0, 0, 0>>,
                         <<0, 1, 1, 0, 1, 1, 1, 1, 1, 1, 1, 1>>,
                         <<1, 1, 1, 0, 1, 1, 1, 1, 1, 1, 1, 1>>>>
          [] d = "15" -> <<<<0, 1, 1, 0, 1, 1, 1, 1, 1, 1, 1, 1>>,
                         <<1, 1, 1, 0, 1, 1, 1, 1, 1, 1, 1, 1>>,
                         <<1, 1, 1, 0, 1, 1, 0, 0, 0, 0, 0, 0>>,
                         <<0, 1, 1, 0, 1, 1, 1, 1, 1, 1, 0, 0>>,
                         <<0, 1, 1, 0, 1, 1, 1, 1, 1, 1, 1, 0>>,
                         <<0, 1, 1, 0, 0, 0, 0, 0, 0, 1, 1, 0>>,
                         <<0, 1, 1, 0, 1, 1, 0, 0, 0, 1, 1, 0>>,
                         <<0, 1, 1, 0, 1, 1, 1, 1, 1, 1, 1, 0>>,
                         <<1, 1, 1, 0, 0, 1, 1, 1, 1, 1, 0, 0>>>>
          [] d = "16" -> <<<<0, 1, 1, 0, 0, 1, 1, 1, 1, 1, 0, 0>>,
                         <<1, 1, 1, 0, 1, 1, 1, 1, 1, 1, 1, 0>>,
                         <<1, 1, 1, 0, 1, 1, 0, 0, 0, 0, 0, 0>>,
                         <<0, 1, 1, 0, 1, 1, 0, 0, 0, 0, 0, 0>>,
                         <<0, 1, 1, 0, 1, 1, 1, 1, 1, 1, 0, 0>>,
                         <<0, 1, 1, 0, 1, 1, 1, 1, 1, 1, 1, 0>>,
                         <<0, 1, 1, 0, 1, 1, 0, 0, 0, 1, 1, 0>>,
                         <<0, 1, 1, 0, 1, 1, 1, 1, 1, 1, 1, 0>>,
                         <<1, 1, 1, 0, 0, 1, 1, 1, 1, 1, 0, 0>>>>
          [] d = "29" -> <<<<0, 1, 1, 1, 1, 0, 0, 0, 1, 1, 1, 1, 0>>,
                         <<1, 1, 1, 1, 1, 1, 0, 1, 1, 1, 1, 1, 1>>,
                         <<1, 1, 0, 0, 1, 1, 0, 1, 1, 0, 0, 1, 1>>,
                         <<0, 0, 0, 0, 1, 1, 0, 1, 1, 0, 0, 1, 1>>,
                         <<0, 0, 0, 1, 1, 0, 0, 0, 1, 1, 1, 1, 1>>,
                         <<0, 0, 1, 1, 0, 0, 0, 0, 0, 0, 0, 1, 1>>,
                         <<0, 1, 1, 0, 0, 0, 0, 0, 0, 0, 0, 1, 1>>,
                         <<1, 1, 1, 1, 1, 1, 0, 1, 1, 1, 1, 1, 1>>,
                         <<1, 1, 1, 1, 1, 1, 0, 0, 1, 1, 1, 1, 0>>>>
          [] d = "42" -> <<<<1, 1, 0, 0, 0, 0, 0, 1, 1, 1, 1, 0, 0>>,
                         <<1, 1, 0, 0, 0, 0, 1, 1, 1, 1, 1, 1, 0>>,
                         <<1, 1, 0, 0, 0, 1, 1, 0, 0, 0, 1, 1, 0>>,
                         <<1, 1, 0, 1, 1, 0, 0, 0, 0, 0, 1, 1, 0>>,
                         <<1, 1, 1, 1, 1, 1, 0, 0, 0, 1, 1, 0, 0>>,
                         <<0, 0, 0, 1, 1, 0, 0, 0, 1, 1, 0, 0, 0>>,
                         <<0, 0, 0, 1, 1, 0, 0, 1, 1, 0, 0, 0, 0>>,
                         <<0, 0, 0, 1, 1, 0, 1, 1, 1, 1, 1, 1, 1>>,
                         <<0, 0, 0, 1, 1, 0, 1, 1, 1, 1, 1, 1, 1>>>>
          [] d = "45" -> <<<<1, 1, 0, 0, 0, 0, 1, 1, 1, 1, 1, 1, 1>>,
                         <<1, 1, 0, 0, 0, 0, 1, 1, 1, 1, 1, 1, 1>>,
                         <<1, 1, 0, 0, 0, 0, 1, 1, 0, 0, 0, 0, 0>>,
                         <<1, 1, 0, 1, 1, 0, 1, 1, 1, 1, 1, 1, 0>>,
                         <<1, 1, 1, 1, 1, 0, 1, 1, 1, 1, 1, 1, 1>>,
                         <<0, 0, 0, 1, 1, 0, 0, 0, 0, 0, 0, 1, 1>>,
                         <<0, 0, 0, 1, 1, 0, 1, 1, 0, 0, 0, 1, 1>>,
                         <<0, 0, 0, 1, 1, 0, 1, 1, 1, 1, 1, 1, 1>>,
                         <<0, 0, 0, 1, 1, 0, 0, 1, 1, 1, 1, 1, 0>>>>
          [] d = "57" -> <<<<1, 1, 1, 1, 1, 1, 0, 1, 1, 1, 1, 1, 1>>,
                         <<1, 1, 1, 1, 1, 1, 0, 1, 1, 1, 1, 1, 1>>,
                         <<1, 1, 0, 0, 0, 0, 0, 0, 0, 0, 0, 1, 1>>,
                         <<1, 1, 1, 1, 1, 0, 0, 0, 0, 0, 1, 1, 0>>,
                         <<1, 1, 1, 1, 1, 1, 0, 0, 0, 1, 1, 0, 0>>,
                         <<0, 0, 0, 0, 1, 1, 0, 0, 0, 1, 1, 0, 0>>,
                         <<0, 0, 0, 0, 1, 1, 0, 0, 0, 1, 1, 0, 0>>,
                         <<0, 0, 0, 0, 1, 1, 0, 0, 0, 1, 1, 0, 0>>,
                         <<0, 0, 0, 0, 1, 1, 0, 0, 0, 1, 1, 0, 0>>>>
          [] d = "74" -> <<<<1, 1, 1, 1, 1, 1, 0, 1, 1, 0, 0, 0, 0>>,
                         <<1, 1, 1, 1, 1, 1, 0, 1, 1, 0, 0, 0, 0>>,
                         <<0, 0, 0, 0, 1, 1, 0, 1, 1, 0, 0, 0, 0>>,
                         <<0, 0, 0, 1, 1, 0, 0, 1, 1, 0, 1, 1, 0>>,
                         <<0, 0, 0, 1, 1, 0, 0, 1, 1, 1, 1, 1, 0>>,
                         <<0, 0, 1, 1, 0, 0, 0, 1, 1, 1, 1, 1, 1>>,
                         <<0, 0, 1, 1, 0, 0, 0, 0, 0, 1, 1, 0, 0>>,
                         <<0, 0, 1, 1, 0, 0, 0, 0, 0, 1, 1, 0, 0>>,
                         <<0, 0, 1, 1, 0, 0, 0, 0, 0, 1, 1, 0, 0>>>>
          [] d = "97" -> <<<<0, 1, 1, 1, 1, 1, 0, 1, 1, 1, 1, 1, 1>>,
                         <<1, 1, 1, 1, 1, 1, 0, 1, 1, 1, 1, 1, 1>>,
                         <<1, 1, 0, 0, 1, 1, 0, 0, 0, 0, 0, 1, 1>>,
                         <<1, 1, 0, 0, 1, 1, 0, 0, 0, 0, 1, 1, 0>>,
                         <<0, 1, 1, 1, 1, 1, 0, 0, 0, 1, 1, 0, 0>>,
                         <<0, 0, 0, 0, 1, 1, 0, 0, 0, 1, 1, 0, 0>>,
                         <<0, 0, 0, 0, 1, 1, 0, 0, 0, 1, 1, 0, 0>>,
                         <<1, 1, 1, 1, 1, 1, 0, 0, 0, 1, 1, 0, 0>>,
                         <<0, 1, 1, 1, 1, 0, 0, 0, 0, 1, 1, 0, 0>>>>]

\* figureColors and bgColors of the plates of ISHIHARA_PLATES
PLATE_COLORS == <<
    [figureColors |-> COLORS["demoFigure"], bgColors |-> COLORS["demoBg"]],
    [figureColors |-> COLORS["redOrange"], bgColors |-> COLORS["bgNeutral"]],
    [figureColors |-> COLORS["redOrange"], bgColors |-> COLORS["bgWarm"]],
    [figureColors |-> COLORS["greenOlive"], bgColors |-> COLORS["bgNeutral"]],
    [figureColors |-> COLORS["greenOlive"], bgColors |-> COLORS["bgWarm"]],
    [figureColors |-> COLORS["redOrange"], bgColors |-> COLORS["bgCool"]],
    [figureColors |-> COLORS["greenOlive"], bgColors |-> COLORS["bgNeutral"]],
    [figureColors |-> COLORS["redOrange"], bgColors |-> COLORS["bgWarm"]],
    [figureColors |-> COLORS["greenOlive"], bgColors |-> COLORS["bgCool"]],
    [figureColors |-> COLORS["redOrange"], bgColors |-> COLORS["bgNeutral"]],
    [figureColors |-> COLORS["greenOlive"], bgColors |-> COLORS["bgWarm"]],
    [figureColors |-> COLORS["redOrange"], bgColors |-> COLORS["bgCool"]],
    [figureColors |-> COLORS["redOrange"], bgColors |-> COLORS["bgNeutral"]],
    [figureColors |-> COLORS["blueViolet"], bgColors |-> COLORS["grayYellow"]] >>

\* digit: DIGIT_PATTERNS[...] of the plates: the pattern of the correct answer
digitOf(plate) == DIGIT_PATTERNS[plate.correctAnswer]

\* a generator that goes on from the state the calls before it have left
seededRandom_Carried(seed) == seed + Len(dotCalls)

\* seededRandom(seed): a new generator whose state s starts at the seed
seededRandom(seed) == seed

\* s = (s * 16807 + 0) % 2147483647 in 32 bits (16807 * 127773 + 2836 =
\* 2147483647): the product itself needs 46 bits and is exact in a double
nextState(s) ==
    LET t == 16807 * (s % 127773) - 2836 * (s \div 127773)
    IN  IF t < 0 THEN t + 2147483647 ELSE t

\* Math.floor(rand() * n) for the value (s - 1) / 2147483646 of rand()
floorOfRandTimes(s, n) ==
    Cardinality({i \in 1..(n - 1) :
        s - 1 >= i * (2147483646 \div n) + ((i * (2147483646 % n) + n - 1) \div n)})

\* (rand() - 0.5) * w in whole units, rand() taken to 15 binary places
jitterOf(s, w) == ((((s - 1) \div 65536) * w) \div 32768) - (w \div 2)

\* plateSize = 20000 units: plateRadius, padding, innerRadius, maxDigitSize
\* = innerRadius * 1.65, baseDotR, dotVariance, dotSpacing = baseDotR * 2.15,
\* jitter = baseDotR * 0.25
plateRadius == 10000
padding == 800
innerRadius == plateRadius - padding
maxDigitSize == (innerRadius * 165) \div 100
baseDotR == 380
dotVariance == 100
dotSpacing == (baseDotR * 215) \div 100
jitter == baseDotR \div 4

\* gy of row rowIdx: padding + baseDotR + rowIdx * rowHeight, rowHeight =
\* dotSpacing * 0.866
gyOf(rowIdx) == padding + baseDotR + (rowIdx * dotSpacing * 866) \div 1000

\* gx of the colIdx-th position of row rowIdx
gxOf(rowIdx, colIdx) ==
    padding + baseDotR + (rowIdx % 2) * (dotSpacing \div 2) + colIdx * dotSpacing

\* Math.sqrt(dx * dx + dy * dy) + r <= innerRadius
isInsidePlate(x, y, r) ==
    LET dx == x - plateRadius
        dy == y - plateRadius
    IN  /\ r <= innerRadius
        /\ dx * dx + dy * dy <= (innerRadius - r) * (innerRadius - r)

\* the cells are squares of side maxDigitSize / max(rows, cols), the grid is
\* centred on the plate
isInDigit(grid, x, y) ==
    LET rows == Len(grid)
        cols == Len(grid[1])
        cells == Max(rows, cols)
        col == (2 * (x - plateRadius) * cells + cols * maxDigitSize) \div (2 * maxDigitSize)
        row == (2 * (y - plateRadius) * cells + rows * maxDigitSize) \div (2 * maxDigitSize)
    IN  IF row < 0 \/ row >= rows \/ col < 0 \/ col >= cols THEN FALSE
        ELSE grid[row + 1][col + 1] = 1

\* colors[Math.floor(rand() * colors.length)]
pickColor(colors, s) == colors[floorOfRandTimes(s, Len(colors)) + 1]

RECURSIVE placeRow(_, _, _, _, _)
\* the inner loop of generatePlateDots from position colIdx of row rowIdx on,
\* the generator in state s: three draws for cx, cy and r, and a fourth for
\* the colour of a dot that lies inside the plate; the dots pushed and the
\* state the generator is left in
placeRow(plateIndex, plateSize, s, rowIdx, colIdx) ==
    IF gxOf(rowIdx, colIdx) >= 2 * plateRadius - padding
    THEN [dots |-> <<>>, s |-> s]
    ELSE LET s1 == nextState(s)
             s2 == nextState(s1)
             s3 == nextState(s2)
             s4 == nextState(s3)
             cx == gxOf(rowIdx, colIdx) + jitterOf(s1, jitter)
             cy == gyOf(rowIdx) + jitterOf(s2, jitter)
             r == baseDotR + jitterOf(s3, dotVariance)
         IN  IF isInsidePlate(cx, cy, r)
             THEN LET inDigit == isInDigit(digitOf(PlateAt(plateIndex)), cx, cy)
                      fill == IF inDigit
                              THEN pickColor(PLATE_COLORS[plateIndex + 1].figureColors, s4)
                              ELSE pickColor(PLATE_COLORS[plateIndex + 1].bgColors, s4)
                      rest == placeRow(plateIndex, plateSize, s4, rowIdx, colIdx + 1)
                  IN  [dots |-> <<[cx |-> cx * plateSize, cy |-> cy * plateSize,
                                   r |-> Max(r, (baseDotR * 8) \div 10) * plateSize,
                                   fill |-> fill]>> \o rest.dots,
                       s |-> rest.s]
             ELSE placeRow(plateIndex, plateSize, s3, rowIdx, colIdx + 1)

RECURSIVE placeDots(_, _, _, _)
\* the outer loop from row rowIdx on
placeDots(plateIndex, plateSize, s, rowIdx) ==
    IF rowIdx >= MaxDotRows \/ gyOf(rowIdx) >= 2 * plateRadius - padding THEN <<>>
    ELSE LET row == placeRow(plateIndex, plateSize, s, rowIdx, 0)
         IN  row.dots \o placeDots(plateIndex, plateSize, row.s, rowIdx + 1)

\* generatePlateDots(ISHIHARA_PLATES[plateIndex], plateSize)
generatePlateDots(plateIndex, plateSize) ==
    placeDots(plateIndex, plateSize,
              seededRandom(PlateAt(plateIndex).id * 1000 + 42), 0)

-----------------------------------------------------------------------------
(* SpecDots: generatePlateDots called up to MaxDotCalls times for a plate   *)
(* and a plate size.                                                        *)

\* PLATE_SIZE = Math.min(width - 32, 340)
PLATE_SIZE(width) == Min(width - 32, 340)

InitDotInputs ==
    /\ dotPlateIndex \in PlateIndices
    /\ dotPlateSize \in {PLATE_SIZE(width) : width \in ScreenWidths}
    /\ dotCalls = <<>>

InitDotsSpec ==
    /\ InitAcuity /\ InitAstig /\ InitInterp /\ InitColour /\ InitDevice /\ InitBright
    /\ InitMean /\ InitFlow /\ InitCombined
    /\ InitDotInputs

\* currentDots = generatePlateDots(currentPlate, PLATE_SIZE)
GenerateDots ==
    /\ Len(dotCalls) < MaxDotCalls
    /\ dotCalls' = Append(dotCalls, generatePlateDots(dotPlateIndex, dotPlateSize))
    /\ UNCHANGED <<dotPlateIndex, dotPlateSize, notDots>>

NextDots == GenerateDots

SpecDots == InitDotsSpec /\ [][NextDots]_vars

-----------------------------------------------------------------------------
(* SpecColourFlow: the screens of ColorVisionTest.  Its animateTransition   *)
(* defers the plate advance by 120 ms; every scheduled advance is the same  *)
(* callback, so plateTimers counts them.                                    *)

colourPreviousPhaseMap ==
    [p \in {"welcome", "setup", "test", "results"} |->
        CASE p = "welcome" -> "exit"
          [] p = "setup"   -> "welcome"
          [] p = "test"    -> "setup"
          [] p = "results" -> "test"]

\* currentPlate = ISHIHARA_PLATES[currentPlateIndex] is defined
PlateDefined == currentPlateIndex \in PlateIndices

\* every render evaluates currentPlate.correctAnswer and generatePlateDots(
\* currentPlate, ...): with the plate undefined the render throws and the
\* component is unmounted
ColourMounted == colourPhase # "exit" /\ PlateDefined

exceptColourPhase == <<currentPlateIndex, plateResults, plateTimers,
                       completedResults, plateRuns, notFlow>>

\* "Start Test" on the welcome screen
ColourWelcomeNext ==
    /\ ColourMounted /\ colourPhase = "welcome"
    /\ colourPhase' = "setup"
    /\ UNCHANGED exceptColourPhase

\* the back arrow of the welcome and results screens, "Done": onExit
ColourExit ==
    /\ ColourMounted /\ colourPhase \in {"welcome", "results"}
    /\ colourPhase' = "exit"
    /\ UNCHANGED exceptColourPhase

\* the back arrow of the setup screen
ColourSetupBack ==
    /\ ColourMounted /\ colourPhase = "setup"
    /\ colourPhase' = "welcome"
    /\ UNCHANGED exceptColourPhase

\* "Begin" on the setup screen and "Retake Test" on the results screen
StartPlates ==
    /\ ColourMounted /\ colourPhase \in {"setup", "results"}
    /\ plateRuns < MaxPlateRuns
    /\ plateRuns' = plateRuns + 1
    /\ currentPlateIndex' = 0
    /\ plateResults' = <<>>
    /\ colourPhase' = "test"
    /\ UNCHANGED <<plateTimers, completedResults, notFlow>>

\* finishTest(results): setPhase('results'); onComplete?.(finalResults)
colourFinishTest(results) ==
    /\ colourPhase' = "results"
    /\ completedResults' = <<getResults(results)>>

colourAnimateTransition ==
    /\ plateTimers < MaxPlatePending
    /\ plateTimers' = plateTimers + 1

handleAnswer(answer) ==
    /\ ColourMounted /\ colourPhase = "test"
    /\ Len(plateResults) < Len(ISHIHARA_PLATES) + MaxExtraAnswers
    /\ LET result == PlateResultOf(currentPlateIndex, answer)
           newResults == Append(plateResults, result)
       IN  /\ plateResults' = newResults
           /\ IF currentPlateIndex < Len(ISHIHARA_PLATES) - 1
              THEN /\ colourAnimateTransition
                   /\ UNCHANGED <<colourPhase, completedResults>>
              ELSE \* all plates done
                   /\ colourFinishTest(newResults)
                   /\ UNCHANGED plateTimers
    /\ UNCHANGED <<currentPlateIndex, plateRuns, notFlow>>

\* the answers tapped: the correct choice and, on the last NumCantSeePlates
\* plates, "Can't See a Number"
AnswersTapped(plateIndex) ==
    {PlateAt(plateIndex).correctAnswer}
        \cup (IF plateIndex >= Len(ISHIHARA_PLATES) - NumCantSeePlates
              THEN {"nothing"} ELSE {})

\* a choice button or "Can't See a Number" (handleCantSee)
TapAnswer ==
    /\ PlateDefined            \* no choices are rendered otherwise
    /\ \E answer \in AnswersTapped(currentPlateIndex) : handleAnswer(answer)

\* setCurrentPlateIndex(prev => prev + 1), 120 ms after it was scheduled
PlateTimerFires ==
    /\ ColourMounted
    /\ plateTimers > 0
    /\ plateTimers' = plateTimers - 1
    /\ currentPlateIndex' = currentPlateIndex + 1
    /\ UNCHANGED <<colourPhase, plateResults, completedResults, plateRuns, notFlow>>

\* the hardwareBackPress listener
colourHardwareBackPress ==
    /\ ColourMounted
    /\ colourPhase' = colourPreviousPhaseMap[colourPhase]
    /\ UNCHANGED exceptColourPhase

InitColourFlow == InitAcuity /\ InitAstig /\ InitInterp /\ InitOthers

NextColourFlow ==
    \/ ColourWelcomeNext
    \/ ColourExit
    \/ ColourSetupBack
    \/ StartPlates
    \/ TapAnswer
    \/ PlateTimerFires
    \/ colourHardwareBackPress

SpecColourFlow == InitColourFlow /\ [][NextColourFlow]_vars

-----------------------------------------------------------------------------
(* SpecCombined: interpretResults applied to the distance and near results  *)
(* the two protocols record.  Decimal scores are in hundredths.             *)

\* nearLevels[level]: absent for a level that is not a key of the table
nearLevels(level) ==
    CASE level = "J1"  -> <<1>>
      [] level = "J2"  -> <<2>>
      [] level = "J3"  -> <<3>>
      [] level = "J5"  -> <<5>>
      [] level = "J6"  -> <<6>>
      [] level = "J8"  -> <<8>>
      [] level = "J10" -> <<10>>
      [] OTHER         -> <<>>

\* distance.eye?.decimal ?? 1
decimalOrDefault(eyeRes) == IF eyeRes = Null THEN 100 ELSE eyeRes.decimal

\* nearLevels[near.eye?.level ?? 'J1'] ?? 1
nearRankOrDefault(eyeRes) ==
    LET level == IF eyeRes = Null THEN "J1" ELSE eyeRes.level
    IN  IF nearLevels(level) = <<>> THEN 1 ELSE nearLevels(level)[1]

bestDistOf(distance) ==
    Max(decimalOrDefault(distance.rightEye), decimalOrDefault(distance.leftEye))

bestNearOf(near) ==
    Min(nearRankOrDefault(near.rightEye), nearRankOrDefault(near.leftEye))

interpretResults(distance, near) ==
    LET bestDist == bestDistOf(distance)
        bestNear == bestNearOf(near)
    IN  IF bestDist < 50 /\ bestNear <= 4
        THEN [condition |-> "Likely Myopia (Nearsightedness)",
              severity  |-> IF bestDist < 33 THEN "Moderate to Severe"
                                             ELSE "Mild to Moderate",
              urgency   |-> IF bestDist < 20 THEN "urgent" ELSE "within_1_month"]
        ELSE IF bestDist >= 50 /\ bestNear >= 6
        THEN [condition |-> "Likely Hypermetropia (Farsightedness)",
              severity  |-> IF bestNear >= 8 THEN "Moderate to Severe"
                                             ELSE "Mild to Moderate",
              urgency   |-> IF bestNear >= 10 THEN "urgent" ELSE "within_1_month"]
        ELSE IF bestDist < 50 /\ bestNear >= 6
        THEN [condition |-> "Significant Vision Impairment",
              severity  |-> "Requires Professional Assessment",
              urgency   |-> "urgent"]
        ELSE IF bestDist >= 67 /\ bestNear <= 4
        THEN [condition |-> "Normal Vision",
              severity  |-> "No Significant Issues",
              urgency   |-> "low"]
        ELSE [condition |-> "Borderline Vision",
              severity  |-> "Minor Concerns",
              urgency   |-> "low"]

\* the results finishDistanceEye can record for an eye
DistanceResultsRecorded ==
    {EyeResult(DistanceLineAt(k)) : k \in 0..(Len(DISTANCE_TEST_LINES) - 1)}
        \cup {EyeResult(WorseThanFirstLine)}

\* the results finishNearEye can record for an eye
NearResultsRecorded ==
    {NearEyeResult(NearLineAt(k)) : k \in 0..(Len(NEAR_VISION_LINES) - 1)}
        \cup {NearEyeResult(WorseThanFirstNearLine)}

InitCombinedInputs ==
    /\ argDistance \in [rightEye : DistanceResultsRecorded, leftEye : DistanceResultsRecorded]
    /\ argNear \in [rightEye : NearResultsRecorded, leftEye : NearResultsRecorded]
    /\ combinedDiagnosis = Null

InitInterpretResults ==
    /\ InitAcuity /\ InitAstig /\ InitInterp /\ InitColour /\ InitDevice /\ InitBright
    /\ InitMean /\ InitDots /\ InitFlow
    /\ InitCombinedInputs

\* const combinedDiagnosis = interpretResults(distanceResults, nearResults)
InterpretResults ==
    /\ combinedDiagnosis = Null
    /\ combinedDiagnosis' = interpretResults(argDistance, argNear)
    /\ UNCHANGED <<argDistance, argNear, notCombined>>

NextCombined == InterpretResults

SpecCombined == InitInterpretResults /\ [][NextCombined]_vars

-----------------------------------------------------------------------------
(* Properties of the distance protocol (checked under Spec) *)

DistanceResultOf(eye) ==
    IF eye = "right" THEN distanceResults.rightEye ELSE distanceResults.leftEye

\* the step ends the distance run of the eye under test
FinishesDistanceEye ==
    /\ phase = "distance-test"
    /\ phase' = IF currentEye = "right" THEN "distance-switch-eye" ELSE "distance-results"

\* the EyeResult that stands for row k (0-based) of the chart
RowResult(k) ==
    [acuity   |-> DISTANCE_TEST_LINES[k + 1].acuity,
     linesRead |-> k + 1,
     decimal  |-> DISTANCE_TEST_LINES[k + 1].decimal]

WorseThanFirstResult == [acuity |-> "Worse than 6/60", linesRead |-> 0, decimal |-> 5]

LastLetterOfRow ==
    currentLetterIndex = Len(DistanceLineAt(currentLineIndex).letters) - 1

LastRow == currentLineIndex = Len(DISTANCE_TEST_LINES) - 1

\* C1: the second of two consecutive wrong answers, given on row k, ends the
\* run of the eye under test with row k-1 as the result when k > 0 and with
\* row 0 (6/60) when k = 0; the step always records a result.
C1_SecondWrongAnswerFinishes ==
    [][ (phase = "distance-test" /\ consecutiveErrors >= 1) =>
          \A answer \in SLOAN_LETTERS :
             (handleDistanceAnswer(answer) /\ answer # currentLetter)
             => /\ FinishesDistanceEye
                /\ DistanceResultOf(currentEye)' =
                       IF currentLineIndex > 0 THEN RowResult(currentLineIndex - 1)
                                               ELSE RowResult(0)
      ]_vars

\* a right-eye run ended by a second wrong answer on row 2, reported as row 1
C1_Witness ==
    /\ phase = "distance-switch-eye"
    /\ consecutiveErrors = 2
    /\ currentLineIndex = 2
    /\ distanceResults.rightEye = RowResult(1)

\* C2 (as stated): a run ends only on a correct answer to the last letter of
\* the last row, on consecutiveErrors reaching 2, or on "Can't See Clearly";
\* a wrong answer that brings consecutiveErrors to 1 keeps the run on its
\* row and schedules the move to the next letter.
C2_Original ==
    [][ phase = "distance-test" =>
        /\ FinishesDistanceEye =>
            \/ handleCantSee
            \/ \E a \in SLOAN_LETTERS :
                  /\ handleDistanceAnswer(a)
                  /\ \/ a = currentLetter /\ LastRow /\ LastLetterOfRow
                     \/ a # currentLetter /\ consecutiveErrors' = 2
        /\ \A a \in SLOAN_LETTERS :
              ( /\ handleDistanceAnswer(a)
                /\ a # currentLetter
                /\ consecutiveErrors = 0 )
              => /\ phase' = "distance-test"
                 /\ UNCHANGED <<currentLineIndex, currentLetterIndex>>
                 /\ timers' = Append(timers, [cb |-> "letter", eye |-> currentEye])
      ]_vars

\* C2 (amended): a run ends only on a correct answer to the last letter of
\* the last row, on a wrong answer that brings consecutiveErrors to 2 or
\* more, on a wrong answer to the last letter of a row, or on "Can't See
\* Clearly"; a wrong answer that brings consecutiveErrors to 1 on a letter
\* that is not the last of its row keeps the run on its row and schedules
\* the move to the next letter.
C2_FinishOnlyWhen ==
    [][ phase = "distance-test" =>
        /\ FinishesDistanceEye =>
            \/ handleCantSee
            \/ \E a \in SLOAN_LETTERS :
                  /\ handleDistanceAnswer(a)
                  /\ \/ a = currentLetter /\ LastRow /\ LastLetterOfRow
                     \/ a # currentLetter /\ consecutiveErrors' >= 2
                     \/ a # currentLetter /\ LastLetterOfRow
        /\ \A a \in SLOAN_LETTERS :
              ( /\ handleDistanceAnswer(a)
                /\ a # currentLetter
                /\ consecutiveErrors = 0
                /\ ~LastLetterOfRow )
              => /\ phase' = "distance-test"
                 /\ consecutiveErrors' = 1
                 /\ UNCHANGED <<currentLineIndex, currentLetterIndex>>
                 /\ timers' = Append(timers, [cb |-> "letter", eye |-> currentEye])
      ]_vars

\* a run ended by a single wrong answer to the last letter of row 3
C2_Witness ==
    /\ phase = "distance-switch-eye"
    /\ consecutiveErrors = 1
    /\ currentLineIndex = 3
    /\ currentLetterIndex = 3
    /\ distanceResults.rightEye = RowResult(2)

\* C3: a correct answer with letters left in the row schedules the move to
\* the next letter of the same row; with the row exhausted and rows left it
\* schedules the move to letter 0 of the next row with the error counter
\* reset; with the last row exhausted it ends the run with the last row as
\* the result.  The scheduled moves do exactly that when they run.
C3_CorrectAnswerTransitions ==
    [][ /\ phase = "distance-test" => \A a \in SLOAN_LETTERS :
              (handleDistanceAnswer(a) /\ a = currentLetter) =>
                 IF ~LastLetterOfRow
                 THEN /\ timers' = Append(timers, [cb |-> "letter", eye |-> currentEye])
                      /\ UNCHANGED <<phase, currentLineIndex, currentLetterIndex>>
                 ELSE IF ~LastRow
                 THEN /\ timers' = Append(timers, [cb |-> "line", eye |-> currentEye])
                      /\ UNCHANGED <<phase, currentLineIndex, currentLetterIndex>>
                 ELSE /\ FinishesDistanceEye
                      /\ DistanceResultOf(currentEye)' =
                             RowResult(Len(DISTANCE_TEST_LINES) - 1)
        /\ (TimerFires /\ Head(timers).cb = "letter") =>
              /\ currentLineIndex' = currentLineIndex
              /\ currentLetterIndex' = currentLetterIndex + 1
        /\ (TimerFires /\ Head(timers).cb = "line") =>
              /\ currentLineIndex' = currentLineIndex + 1
              /\ currentLetterIndex' = 0
              /\ consecutiveErrors' = 0
      ]_vars

\* the right eye read every row: the run ended on the last letter of row 7
C3_Witness ==
    /\ phase = "distance-switch-eye"
    /\ currentLineIndex = Len(DISTANCE_TEST_LINES) - 1
    /\ currentLetterIndex = 7
    /\ consecutiveErrors = 0
    /\ distanceResults.rightEye = RowResult(7)
    /\ timers = <<>>

\* C4 (as stated): on every row k "Can't See Clearly" ends the run with the
\* result a terminating wrong answer gives there: row k-1 for k > 0 and
\* row 0 for k = 0.
C4_Original ==
    [][ handleCantSee =>
          /\ FinishesDistanceEye
          /\ DistanceResultOf(currentEye)' =
                 IF currentLineIndex > 0 THEN RowResult(currentLineIndex - 1)
                                         ELSE RowResult(0)
      ]_vars

\* C4 (amended): on row k > 0 "Can't See Clearly" ends the run with row k-1,
\* the result a terminating wrong answer gives there; on row 0 it ends the
\* run with "Worse than 6/60" (decimal 0.05, 0 lines read), which is below
\* the row-0 result a terminating wrong answer gives.
C4_CantSeeResult ==
    [][ handleCantSee =>
          /\ FinishesDistanceEye
          /\ DistanceResultOf(currentEye)' =
                 IF currentLineIndex > 0 THEN RowResult(currentLineIndex - 1)
                                         ELSE WorseThanFirstResult
      ]_vars

\* "Can't See Clearly" was tapped on row 0
C4_Witness ==
    /\ phase = "distance-switch-eye"
    /\ currentLineIndex = 0
    /\ distanceResults.rightEye = WorseThanFirstResult

\* C6: every distance run starts at row 0, letter 0, 0 errors, and while an
\* eye is being tested a deferred callback scheduled during the other eye's
\* run does not change its row, letter or error counter.
C6_RunsIndependent ==
    [][ /\ (StartRightDistance \/ StartLeftDistance) =>
              /\ currentLineIndex' = 0
              /\ currentLetterIndex' = 0
              /\ consecutiveErrors' = 0
        /\ ( /\ TimerFires
             /\ phase = "distance-test"
             /\ Head(timers).eye # currentEye )
           => UNCHANGED <<currentLineIndex, currentLetterIndex, consecutiveErrors>>
      ]_vars

\* C7: once an eye's distance result is recorded it is never replaced.
C7_ResultImmutable ==
    [][ \A eye \in {"right", "left"} :
          DistanceResultOf(eye) # Null =>
              DistanceResultOf(eye)' = DistanceResultOf(eye) ]_vars

-----------------------------------------------------------------------------
(* Properties of the near-vision protocol (checked under SpecNear) *)

NearResultOf(eye) ==
    IF eye = "right" THEN nearResults.rightEye ELSE nearResults.leftEye

\* the step ends the near run of the eye under test
FinishesNearEye ==
    /\ phase = "near-test"
    /\ phase' = IF currentEye = "right" THEN "near-switch-eye" ELSE "near-results"

\* the NearEyeResult that stands for level k (0-based)
LevelResult(k) ==
    [level      |-> NEAR_VISION_LINES[k + 1].level,
     equivalent |-> NEAR_VISION_LINES[k + 1].equivalent,
     linesRead  |-> k + 1]

WorseThanFirstNearResult ==
    [level |-> "Worse than J10", equivalent |-> NEAR_VISION_LINES[1].equivalent,
     linesRead |-> 0]

LastNearLevel == nearLineIndex = Len(NEAR_VISION_LINES) - 1

\* C5: every response is given to the single item of the level on screen.
\* "Cannot read" on level k always ends the run at once, with level k-1 as
\* the result when k > 0 ("Worse than J10" when k = 0); "can read" on the
\* last level ends the run with the last level as the result; "can read" on
\* any other level keeps the run going and schedules the move to the next
\* level.  The run ends in no other way.
C5_NearRunTermination ==
    [][ /\ handleNearAnswer(FALSE) =>
              /\ FinishesNearEye
              /\ NearResultOf(currentEye)' =
                     IF nearLineIndex > 0 THEN LevelResult(nearLineIndex - 1)
                                          ELSE WorseThanFirstNearResult
        /\ (handleNearAnswer(TRUE) /\ LastNearLevel) =>
              /\ FinishesNearEye
              /\ NearResultOf(currentEye)' = LevelResult(Len(NEAR_VISION_LINES) - 1)
        /\ (handleNearAnswer(TRUE) /\ ~LastNearLevel) =>
              /\ phase' = "near-test"
              /\ UNCHANGED <<nearLineIndex, nearResults>>
              /\ timers' = Append(timers, [cb |-> "near", eye |-> currentEye])
        /\ (TimerFires /\ Head(timers).cb = "near") =>
              nearLineIndex' = nearLineIndex + 1
        /\ FinishesNearEye =>
              \/ handleNearAnswer(FALSE)
              \/ handleNearAnswer(TRUE) /\ LastNearLevel
      ]_vars

\* the right eye could not read level 3 and the left eye read every level
C5_Witness ==
    /\ phase = "near-results"
    /\ nearResults.rightEye = LevelResult(2)
    /\ nearResults.leftEye = LevelResult(6)
    /\ nearLineIndex = 6

-----------------------------------------------------------------------------
(* Properties of the astigmatism flow (checked under SpecAstig) *)

\* C8: the result recorded for an eye has isUniform = TRUE exactly when the
\* eye's recorded round-1 selection is empty, whichever of "Submit" and "All
\* Lines Equal" ended the two rounds.
C8_UniformIffRound1Empty ==
    /\ rightResult # Null => (rightResult.isUniform <=> rightEyeRound1 = <<>>)
    /\ leftResult # Null => (leftResult.isUniform <=> leftEyeRound1 = <<>>)

-----------------------------------------------------------------------------
(* Properties of interpretEyeResult (checked under SpecInterp) *)

\* C9 as stated: for a non-uniform eye with n flagged round-1 lines, n = 1
\* and consistent is mild, n = 2 and consistent is moderate, n >= 3 is
\* significant, and inconsistent rounds are significant unless n = 1, which
\* is mild.
C9_Original ==
    (eyeResult # Null /\ ~eyeResult.isUniform) =>
        LET n == Len(argFirstPass)
            c == eyeResult.consistent
            s == eyeResult.severity
        IN  /\ (n = 1 /\ c) => s = "mild"
            /\ (n = 2 /\ c) => s = "moderate"
            /\ n >= 3 => s = "significant"
            /\ ~c => s = (IF n = 1 THEN "mild" ELSE "significant")

\* C9 as amended: for a non-uniform eye with n flagged round-1 lines, n = 1
\* and consistent is mild, n = 2 and consistent is moderate, n >= 3 is
\* significant, and inconsistent rounds with n <= 2 are mild.
C9_SeverityTable ==
    (eyeResult # Null /\ ~eyeResult.isUniform) =>
        LET n == Len(argFirstPass)
            c == eyeResult.consistent
            s == eyeResult.severity
        IN  /\ (n = 1 /\ c) => s = "mild"
            /\ (n = 2 /\ c) => s = "moderate"
            /\ n >= 3 => s = "significant"
            /\ (~c /\ n <= 2) => s = "mild"

\* two flagged lines, rounds inconsistent, result computed
C9_Witness ==
    /\ eyeResult # Null
    /\ Len(argFirstPass) = 2
    /\ ~eyeResult.consistent
    /\ eyeResult.severity = "mild"

\* angle a matches angle b: their distance around the 180-degree circle is
\* at most 15
AnglesMatch(a, b) == Min(Abs(a - b), 180 - Abs(a - b)) <= 15

\* the angles of `smaller` that match some angle of `other`
MatchedOf(smaller, other) ==
    {i \in 1..Len(smaller) : \E j \in 1..Len(other) : AnglesMatch(smaller[i], other[j])}

\* C10: two non-empty rounds are consistent exactly when at least half of
\* the angles of the smaller round match an angle of the other round (a and
\* b match when min(|a-b|, 180-|a-b|) <= 15); {45} against {50} is
\* consistent and {45} against {120} is not.
C10_HalfOfSmallerSet ==
    /\ (eyeResult # Null /\ argFirstPass # <<>> /\ argSecondPass # <<>>) =>
          LET firstIsSmaller == Len(argFirstPass) <= Len(argSecondPass)
              smaller == IF firstIsSmaller THEN argFirstPass ELSE argSecondPass
              other == IF firstIsSmaller THEN argSecondPass ELSE argFirstPass
          IN  eyeResult.consistent <=>
                  2 * Cardinality(MatchedOf(smaller, other)) >= Len(smaller)
    /\ checkConsistency(<<45>>, <<50>>)
    /\ ~checkConsistency(<<45>>, <<120>>)

\* C11: when the first pass is empty the result is uniform with severity
\* none and no axis, whatever the second pass is, and it is consistent
\* exactly when the second pass is empty too.
C11_UniformResult ==
    (eyeResult # Null /\ argFirstPass = <<>>) =>
        /\ eyeResult.isUniform
        /\ eyeResult.severity = "none"
        /\ eyeResult.suspectedAxis = Null
        /\ eyeResult.consistent <=> (argSecondPass = <<>>)

\* an empty first pass interpreted against a non-empty second pass
C11_Witness ==
    /\ eyeResult # Null
    /\ argFirstPass = <<>>
    /\ Len(argSecondPass) = MaxSecond
    /\ ~eyeResult.consistent

-----------------------------------------------------------------------------
(* Properties of finishTest (checked under SpecLeftRound2) *)

\* the place of an eye's severity in none < mild < moderate < significant;
\* an eye without a result counts as none
RankOf(result) == SeverityIndex(IF result = Null THEN "none" ELSE result.severity)

\* C12: the overallSuspicion handed to onComplete is the worse of the two
\* eyes' severities under none < mild < moderate < significant: it ranks
\* below neither eye and equals the severity of one of them.
C12_OverallIsWorse ==
    finalResults # Null =>
        LET o == SeverityIndex(finalResults.overallSuspicion)
            r == RankOf(finalResults.rightEye)
            l == RankOf(finalResults.leftEye)
        IN  /\ o >= r
            /\ o >= l
            /\ o = r \/ o = l

\* finishTest has run with a significant right eye and a milder left eye
C12_Witness ==
    /\ finalResults # Null
    /\ finalResults.rightEye # Null
    /\ finalResults.rightEye.severity = "significant"
    /\ finalResults.leftEye.severity = "mild"
    /\ finalResults.overallSuspicion = "significant"

-----------------------------------------------------------------------------
(* Properties of the colour diagnosis (checked under SpecDiagnose) *)

\* the recorded answers to plates of the given categories that differ from
\* the catalogue's correct answer for the plate
MissesIn(categories) ==
    {i \in 1..Len(argPlateResults) :
        LET plate == ISHIHARA_PLATES[argPlateResults[i].plateNumber]
        IN  /\ plate.category \in categories
            /\ argPlateResults[i].userAnswer # plate.correctAnswer}

RedGreenCategories == {"vanishing", "transformation"}

RgErrors == Cardinality(MissesIn(RedGreenCategories))

TritanErrors == Cardinality(MissesIn({"tritan"}))

\* the recorded answers to red-green plates
RgCount ==
    Cardinality({i \in 1..Len(argPlateResults) :
        ISHIHARA_PLATES[argPlateResults[i].plateNumber].category \in RedGreenCategories})

TritanRuleApplies == TritanErrors >= 1 /\ RgErrors <= 1

RedGreenBranch == RgErrors >= 1 /\ ~TritanRuleApplies

\* a result list of k missed tritan plates
TritanMisses(k) == [i \in 1..k |-> PlateResultOf(Len(ISHIHARA_PLATES) - 1, "nothing")]

\* C13: with tritan errors >= 1 and red-green errors <= 1 the diagnosis is
\* tritan, and the severity scales with the tritan error count: some other
\* tritan error count is given another severity.
C13_TritanSeverityScales ==
    (colourResults # Null /\ TritanRuleApplies) =>
        /\ colourResults.deficiencyType = "tritan"
        /\ \E k \in 1..(1 + MaxExtraAnswers) :
               diagnose(TritanMisses(k)).severity # colourResults.severity

\* the answers recorded for the diagnostic-axis plate
DiagnosticAnswers ==
    {argPlateResults[i].userAnswer :
        i \in {j \in 1..Len(argPlateResults) :
                  argPlateResults[j].plateIndex = DIAGNOSTIC_PLATE_INDEX}}

\* C14: in the red-green branch the diagnosis is protan exactly when the
\* answer recorded for the diagnostic plate is that plate's deficient
\* (protan) answer, and deutan in every other case.
C14_ProtanIffAlternate ==
    (colourResults # Null /\ RedGreenBranch) =>
        /\ colourResults.deficiencyType \in {"protan", "deutan"}
        /\ colourResults.deficiencyType = "protan"
               <=> PlateAt(DIAGNOSTIC_PLATE_INDEX).deficientAnswer \in DiagnosticAnswers

\* the red-green branch with the diagnostic plate answered wrongly, but not
\* with the protan answer: deutan
C14_Witness ==
    /\ colourResults # Null
    /\ RedGreenBranch
    /\ DiagnosticAnswers = {"nothing"}
    /\ colourResults.deficiencyType = "deutan"

\* C15: in the red-green branch the severity is mild when errors/plates is
\* at most 0.25, moderate when it is above 0.25 and at most 0.6, strong
\* above 0.6 (the rates compared as fractions with denominators 4 and 5).
C15_SeverityThresholds ==
    (colourResults # Null /\ RedGreenBranch) =>
        colourResults.severity =
            IF 4 * RgErrors <= RgCount THEN "mild"
            ELSE IF 5 * RgErrors <= 3 * RgCount THEN "moderate"
            ELSE "strong"

\* 2 wrong of 10 red-green plates and no tritan error: mild
C15_Witness ==
    /\ colourResults # Null
    /\ RgCount = 10
    /\ RgErrors = 2
    /\ TritanErrors = 0
    /\ colourResults.severity = "mild"

\* C16: when the tritan rule does not apply and there is no red-green error
\* the diagnosis is normal with severity none; when every recorded answer
\* of a non-empty list is correct the score is 100 as well.
C16_NoErrorsNormal ==
    (colourResults # Null /\ ~TritanRuleApplies /\ RgErrors = 0) =>
        /\ colourResults.deficiencyType = "normal"
        /\ colourResults.severity = "none"
        /\ (argPlateResults # <<>> /\ MissesIn({"demonstration"}) = {})
               => colourResults.score = 100

\* all fourteen plates answered correctly and diagnosed
C16_Witness ==
    /\ colourResults # Null
    /\ Len(argPlateResults) = Len(ISHIHARA_PLATES)
    /\ \A i \in 1..Len(argPlateResults) : argPlateResults[i].isCorrect
    /\ colourResults.score = 100
    /\ colourResults.deficiencyType = "normal"

\* C17: diagnosing an empty result list returns no diagnosis and no
\* defaulted result: it fails instead.
C17_EmptyListRejected ==
    (colourResults # Null /\ argPlateResults = <<>>) =>
        /\ "deficiencyType" \notin DOMAIN colourResults
        /\ "score" \notin DOMAIN colourResults

-----------------------------------------------------------------------------
(* Properties of the optotype sizing (checked under SpecOptotype) *)

\* the size computed for the row exceeds the maximum and is clamped
Clamped(row, os, width) ==
    row.letterHeight_mm * BASE_DPI(os) > 2540 * MAX_LETTER_FONT(width)

\* C18: a clamped size is reported: the row computed with a clamped size
\* differs from the row every device computes for it without clamping.
C18_ClampReported ==
    \A i \in 1..Len(distanceFontSizes) :
        Clamped(DISTANCE_TEST_LINES[i], platformOS, screenWidth) =>
            \A os \in {"android", "ios"}, width \in ScreenWidths :
                ~Clamped(DISTANCE_TEST_LINES[i], os, width) =>
                    SizedDistanceLines(os, width)[i] # distanceFontSizes[i]

-----------------------------------------------------------------------------
(* Properties of the brightness service (checked under SpecBrightness) *)

\* C19: when the restoreBrightness call of the test's end sets the screen
\* brightness, it sets it to the brightness the user had before the first
\* lockMaxBrightness call.
C19_RestoreSetsUserBrightness ==
    [][RestoreNativeSet => screenBrightness' = userBrightness]_vars

-----------------------------------------------------------------------------
(* Properties of the level tables (checked under Spec) *)

\* C20: in DISTANCE_TEST_LINES each row has a strictly smaller
\* letterHeight_mm and a strictly larger decimal than the row before it, and
\* in NEAR_VISION_LINES each level has a strictly smaller pointSize_mm than
\* the level before it; so the row on screen is strictly smaller, and of a
\* strictly larger decimal, than every row above it.
C20_LevelsStrictlyOrdered ==
    /\ \A i \in 1..(Len(DISTANCE_TEST_LINES) - 1) :
           /\ DISTANCE_TEST_LINES[i + 1].letterHeight_mm < DISTANCE_TEST_LINES[i].letterHeight_mm
           /\ DISTANCE_TEST_LINES[i + 1].decimal > DISTANCE_TEST_LINES[i].decimal
    /\ \A i \in 1..(Len(NEAR_VISION_LINES) - 1) :
           NEAR_VISION_LINES[i + 1].pointSize_mm < NEAR_VISION_LINES[i].pointSize_mm
    /\ currentLineIndex < Len(DISTANCE_TEST_LINES) =>
           \A k \in 0..(currentLineIndex - 1) :
               /\ DistanceLineAt(currentLineIndex).letterHeight_mm < DistanceLineAt(k).letterHeight_mm
               /\ DistanceLineAt(currentLineIndex).decimal > DistanceLineAt(k).decimal

\* the distance test of the left eye stands at the last row, the right
\* eye's run having walked through every row of the table
C20_Witness ==
    /\ phase = "distance-test"
    /\ currentEye = "left"
    /\ currentLineIndex = Len(DISTANCE_TEST_LINES) - 1
    /\ distanceResults.rightEye # Null
    /\ distanceResults.rightEye.decimal = DISTANCE_TEST_LINES[Len(DISTANCE_TEST_LINES)].decimal

-----------------------------------------------------------------------------
(* Properties of averageAngles and the suspected axis (checked under        *)
(* SpecMean)                                                                *)

StraddleWrap ==
    /\ Len(argAngles) = 2
    /\ argAngles[1] + argAngles[2] = 180
    /\ Abs(argAngles[1] - argAngles[2]) > 90

\* C22: the mean of two angles that straddle the 0 / 180 wrap, such as 10
\* and 170 degrees, lies within half a degree of 0 / 180, far from 90.
C22_CircularMean ==
    (avgAngle # <<>> /\ StraddleWrap) => avgAngle[1] \in {359, 0}

\* the mean of 10 and 170 degrees has been computed
C22_Witness ==
    /\ argAngles = <<10, 170>>
    /\ avgAngle # <<>>
    /\ avgAngle[1] \in {359, 0}

-----------------------------------------------------------------------------
(* Properties of generatePlateDots (checked under SpecDots) *)

-----------------------------------------------------------------------------
(* Properties of the distance test's indices (checked under Spec) *)

\* C24: while the distance test is on screen, currentLineIndex is within
\* 0..7 and currentLetterIndex is within the letters of the current row,
\* whatever the order of answer taps, cannot-see taps and deferred callbacks.
C24_IndicesInRange ==
    phase = "distance-test" =>
        /\ currentLineIndex \in 0..7
        /\ LetterDefined

-----------------------------------------------------------------------------
(* Properties of the colour-vision flow (checked under SpecColourFlow) *)

\* C25: whenever the diagnosis has been computed by finishTest, the response
\* list it was computed from holds exactly one response per plate, in plate
\* order, and currentPlateIndex is always within 0..13.
C25_OneResponsePerPlate ==
    /\ currentPlateIndex \in 0..13
    /\ completedResults # <<>> =>
           /\ Len(completedResults[1].plateResults) = 14
           /\ \A i \in 1..Len(completedResults[1].plateResults) :
                  completedResults[1].plateResults[i].plateIndex = i - 1

-----------------------------------------------------------------------------
(* Symmetry of checkConsistency (checked under SpecInterp) *)

\* C26: the consistency verdict of two rounds of dial angles is the same
\* whichever of the two rounds is passed first.
C26_ConsistencySymmetric ==
    eyeResult # Null =>
        eyeResult.consistent = checkConsistency(argSecondPass, argFirstPass)

-----------------------------------------------------------------------------
(* Properties of interpretResults (checked under SpecCombined) *)

\* C27: when both eyes have the near result "Worse than J10", the combined
\* interpretation is neither "Normal Vision" nor "Likely Myopia".
C27_WorseThanJ10NotGood ==
    ( /\ combinedDiagnosis # Null
      /\ argNear.rightEye.level = "Worse than J10"
      /\ argNear.leftEye.level = "Worse than J10" )
    => combinedDiagnosis.condition \notin {"Normal Vision", "Likely Myopia (Nearsightedness)"}

\* C29: urgency "low" (Normal Vision or Borderline Vision) is given only when
\* the better eye's distance decimal score is at least 0.5.
C29_LowUrgencyNeedsDistance ==
    (combinedDiagnosis # Null /\ combinedDiagnosis.urgency = "low") =>
        /\ combinedDiagnosis.condition \in {"Normal Vision", "Borderline Vision"}
        /\ Max(argDistance.rightEye.decimal, argDistance.leftEye.decimal) >= 50

-----------------------------------------------------------------------------
(* The right-eye result passed to finishTest (checked under SpecAstig) *)

\* C28: whenever the left eye's round 2 ends and finishTest is invoked, the
\* right-eye result passed to it is non-null: while the left eye is under
\* test the right eye's result is recorded, and the results handed on by
\* finishTest carry a right-eye result.
C28_RightResultPassed ==
    /\ astigEye = "left" => rightResult # Null
    /\ finalResults # Null => finalResults.rightEye # Null

\* the left eye's round 2 was ended by "Submit" and finishTest handed on the
\* results of the two eyes as they are now recorded
C28_Witness ==
    /\ astigPhase = "results"
    /\ finalResults # Null
    /\ finalResults.rightEye = rightResult
    /\ finalResults.leftEye = leftResult
    /\ rightEyeRound1 # <<>>
    /\ leftEyeRound2 # <<>>

-----------------------------------------------------------------------------
(* The brightness left behind (checked under SpecBrightness) *)

\* C30: once restoreBrightness has been called last and every call of the
\* brightness service has completed, the screen is at the user's brightness,
\* whatever the order in which the awaited steps of the calls resolved.
C30_RestoredWhenAllDone ==
    ( /\ RestoreCalled
      /\ \A i \in 1..Len(brightnessCalls) : brightnessCalls[i].pc = "done" )
    => screenBrightness = userBrightness

=============================================================================
